---- MODULE Spec2Model ----
(***************************************************************************)
(* Column resolution, cohort filtering and aggregation of the educational  *)
(* microdata pipelines (ENEM, SAEB, PISA) of analise-capital-cognitivo-    *)
(* brasil, as state machines over small files.                             *)
(*                                                                         *)
(* One specification per pipeline family:                                  *)
(*   SpecEnem  the four chunked ENEM pipelines                             *)
(*   SpecSaeb  the three whole-file SAEB pipelines                         *)
(*   SpecGeo   the text-name geocoder of the PISA 2015 pipeline            *)
(*   SpecPisa  the regional PISA 2018 and 2022 pipelines                   *)
(*   SpecWaves the cross-source merges by wave                             *)
(* A family that a specification does not run stays in its idle state.     *)
(***************************************************************************)
EXTENDS Integers, Sequences, FiniteSets, TLC

VARIABLES
    variant,      \* which ENEM script runs (one EnemPipeline class per file)
    header,       \* the CSV header: ordered raw column names
    chunk_size,   \* rows per chunk of the pandas reader
    pc,           \* position in EnemPipeline.process
    col_map,      \* raw column -> internal name (pass 1)
    filter_mode,  \* cohort policy chosen in pass 1
    rows,         \* the rows the reader has yielded so far, as loaded
    agg_storage,  \* list of per-chunk partial states
    full_agg,     \* the consolidated per-UF totals
    final_df,     \* the emitted summary table
    outcome,      \* how process() ended
    err,          \* what the error outcome names
    script,          \* which SAEB script runs
    saeb_header,     \* the header of TS_ESCOLA.csv
    ts_escola,       \* the rows of TS_ESCOLA.csv
    year,            \* SaebPipeline.year
    filter_network,  \* SaebPipeline.filter_network
    saeb_pc,         \* position in the SAEB script
    saeb_cols,       \* the columns found in the header
    df,              \* the frame read by the scripts that read once
    saved,           \* the tables written so far, in order
    saeb_outcome,    \* how the SAEB script ended
    text_label,   \* the label handed to the text-name geocoder
    geo_pc,       \* position of the geocoder call
    ibge,         \* what resolve_ibge_from_text returned
    grouped,      \* the Public_Share column of each grouped frame of cog03
    saeb_log,     \* what the SAEB script has printed about its rows
    pisa_script,  \* which regional PISA script runs
    pisa_df,      \* the student rows read from the .sav file
    pisa_pc,      \* position in the regional PISA script
    pisa_region,  \* the Region column, one entry per Brazilian row
    pisa_log,     \* what the script has printed about the rows
    pisa_out,     \* the tables written
    w_script,     \* which cross-source script runs
    wave,         \* the wave (PISA cycle) being merged
    pisa_raw,     \* the PISA summary file of the wave
    enem_raw,     \* the state-level ENEM table
    saeb_raw,     \* the state-level SAEB table
    w_pc,         \* position in the cross-source script
    df_enem,      \* the ENEM table as it goes into the merge
    df_saeb,      \* the SAEB table as it goes into the merge
    df_final,     \* the merged table
    merges,       \* the key columns of the two sides of each merge done
    run_script,   \* which pipeline's main() runs over several files
    run_files,    \* the files of the run, in the order of the years
    run_idx,      \* the file main()'s loop is at
    run_pc,       \* position in process() of that file
    run_schema,   \* what pass 1 resolved for that file
    schemas,      \* what pass 1 resolved for each file so far
    batches,      \* what each batch read of that file so far was read with
    fin_parts,    \* the per-chunk totals of one score column of one UF
    fin_err,      \* the rounding error of the float subtraction in finalize
    fin_pc,       \* position in the consolidation of that column
    fin_agg,      \* the merged totals of that column
    fin_out,      \* the mean, variance and standard deviation emitted
    orch_pc,        \* position in main() of the orchestrator
    script_idx,     \* the entry of PIPELINE_SCRIPTS the loop is at
    started,        \* the entries whose subprocess was started, in order
    results,        \* what run_script returned for each entry tried so far
    success_count,  \* main()'s success_count
    summary         \* the counts of the execution summary

enemVars == <<variant, header, chunk_size, pc, col_map, filter_mode, rows,
              agg_storage, full_agg, final_df, outcome, err>>

saebVars == <<script, saeb_header, ts_escola, year, filter_network, saeb_pc,
              saeb_cols, df, saved, saeb_outcome, grouped, saeb_log>>

geoVars == <<text_label, geo_pc, ibge>>

pisaVars == <<pisa_script, pisa_df, pisa_pc, pisa_region, pisa_log, pisa_out>>

waveVars == <<w_script, wave, pisa_raw, enem_raw, saeb_raw, w_pc, df_enem,
              df_saeb, df_final, merges>>

runVars == <<run_script, run_files, run_idx, run_pc, run_schema, schemas,
             batches>>

finVars == <<fin_parts, fin_err, fin_pc, fin_agg, fin_out>>

orchVars == <<orch_pc, script_idx, started, results, success_count, summary>>

vars == <<enemVars, saebVars, geoVars, pisaVars, waveVars, runVars, finVars,
          orchVars>>

\* What the steps of one family leave alone.
notEnem ==
    <<saebVars, geoVars, pisaVars, waveVars, runVars, finVars, orchVars>>
notSaeb ==
    <<enemVars, geoVars, pisaVars, waveVars, runVars, finVars, orchVars>>
notGeo ==
    <<enemVars, saebVars, pisaVars, waveVars, runVars, finVars, orchVars>>
notPisa ==
    <<enemVars, saebVars, geoVars, waveVars, runVars, finVars, orchVars>>
notWaves ==
    <<enemVars, saebVars, geoVars, pisaVars, runVars, finVars, orchVars>>
notRun ==
    <<enemVars, saebVars, geoVars, pisaVars, waveVars, finVars, orchVars>>
notFin ==
    <<enemVars, saebVars, geoVars, pisaVars, waveVars, runVars, orchVars>>
notOrch ==
    <<enemVars, saebVars, geoVars, pisaVars, waveVars, runVars, finVars>>

-----------------------------------------------------------------------------
(* Bounds of the model. *)

\* Longest file, in rows.
MaxRows == 3
\* Largest reader chunk (the scripts hard-code 250000 and 300000).
MaxChunk == 2

-----------------------------------------------------------------------------
(* Values and small helpers. *)

\* A missing numeric cell (np.nan). Scores, codes and ids are >= 0.
NA == 0 - 1
\* A missing text cell in the UF column.
NoUF == ""

\* A score cell whose text is not a number.
Malformed == 0 - 2

Range(f) == {f[x] : x \in DOMAIN f}

SeqToSet(s) == {s[i] : i \in DOMAIN s}

RECURSIVE SumSeq(_)
SumSeq(s) == IF s = <<>> THEN 0 ELSE Head(s) + SumSeq(Tail(s))

\* The non-missing values of column c over a sequence of rows (skipna).
Valid(rs, c) == SelectSeq([i \in DOMAIN rs |-> rs[i][c]], LAMBDA v : v # NA)

\* Series.sum(): missing cells are skipped.
NumSum(rs, c) == SumSeq(Valid(rs, c))

\* Series.count(): the number of non-missing cells.
NumCount(rs, c) == Len(Valid(rs, c))

\* Sum of squares of the non-missing cells (pow(2) then sum).
SqSum(rs, c) == SumSeq([i \in DOMAIN Valid(rs, c) |-> Valid(rs, c)[i] * Valid(rs, c)[i]])

\* str.upper() on the ASCII letters that occur in column names.
UpCh(c) ==
    CASE c = "a" -> "A" [] c = "b" -> "B" [] c = "c" -> "C" [] c = "d" -> "D"
      [] c = "e" -> "E" [] c = "f" -> "F" [] c = "g" -> "G" [] c = "h" -> "H"
      [] c = "i" -> "I" [] c = "j" -> "J" [] c = "k" -> "K" [] c = "l" -> "L"
      [] c = "m" -> "M" [] c = "n" -> "N" [] c = "o" -> "O" [] c = "p" -> "P"
      [] c = "q" -> "Q" [] c = "r" -> "R" [] c = "s" -> "S" [] c = "t" -> "T"
      [] c = "u" -> "U" [] c = "v" -> "V" [] c = "w" -> "W" [] c = "x" -> "X"
      [] c = "y" -> "Y" [] c = "z" -> "Z"
      [] c = "ã" -> "Ã" [] c = "á" -> "Á" [] c = "í" -> "Í" [] c = "ô" -> "Ô"
      [] OTHER -> c

\* The characters UpCh changes.
LowerChars ==
    {"a", "b", "c", "d", "e", "f", "g", "h", "i", "j", "k", "l", "m", "n", "o",
     "p", "q", "r", "s", "t", "u", "v", "w", "x", "y", "z", "ã", "á", "í", "ô"}

\* str.upper(): character by character; a string without a lower-case
\* character is its own upper case.
RECURSIVE Upper(_)
Upper(s) ==
    IF \A i \in 1..Len(s) : SubSeq(s, i, i) \notin LowerChars THEN s
    ELSE UpCh(SubSeq(s, 1, 1)) \o Upper(SubSeq(s, 2, Len(s)))

\* Python's `sub in s` on strings.
Contains(s, sub) ==
    \E i \in 1..(Len(s) - Len(sub) + 1) : SubSeq(s, i, i + Len(sub) - 1) = sub

-----------------------------------------------------------------------------
(* ENEM: tables. *)

EnemVariants == {"historical", "unified", "cog02", "legacy"}

\* score_cols, in the order every script lists them.
ScoreCols == <<"Natural_Sciences", "Humanities", "Language", "Math", "Essay">>

ScoreSet == SeqToSet(ScoreCols)

\* Row means are kept in units of 1/MeanScale so that the mean of 1..5 scores
\* is an integer; their squares are in units of 1/MeanScale^2.
MeanScale == 3 * 4 * 5

\* TARGET_COLS of the unified pipeline, in dictionary order.
UnifiedTargets ==
    << <<"UF", <<"SG_UF_PROVA", "UF_PROVA", "SG_UF_ESC">> >>,
       <<"SCHOOL_ID", <<"CO_ESCOLA">> >>,
       <<"STATUS", <<"TP_ST_CONCLUSAO">> >>,
       <<"Natural_Sciences", <<"NU_NOTA_CN">> >>,
       <<"Humanities", <<"NU_NOTA_CH">> >>,
       <<"Language", <<"NU_NOTA_LC">> >>,
       <<"Math", <<"NU_NOTA_MT">> >>,
       <<"Essay", <<"NU_NOTA_REDACAO">> >>,
       <<"Foreign_Lang_Select", <<"TP_LINGUA">> >> >>

\* TARGET_COLS of cog_02: the same without the foreign-language selector.
Cog02Targets == SubSeq(UnifiedTargets, 1, 8)

\* TARGET_COLS of the legacy triennium pipeline.
LegacyTargets ==
    << <<"UF", <<"SG_UF_PROVA", "UF_PROVA", "SG_UF_ESC">> >>,
       <<"SCHOOL_TYPE", <<"TP_ESCOLA">> >>,
       <<"SCHOOL_DEP", <<"TP_DEPENDENCIA_ADM_ESC">> >>,
       <<"STATUS", <<"TP_ST_CONCLUSAO">> >>,
       <<"Natural_Sciences", <<"NU_NOTA_CN">> >>,
       <<"Humanities", <<"NU_NOTA_CH">> >>,
       <<"Language", <<"NU_NOTA_LC">> >>,
       <<"Math", <<"NU_NOTA_MT">> >>,
       <<"Essay", <<"NU_NOTA_REDACAO">> >> >>

\* cols_to_load of the historical pipeline with the names it renames them to
\* (SG_UF_PROVA -> UF, SCORE_MAP); TP_ESCOLA and TP_ST_CONCLUSAO keep their
\* names in the script and are called SCHOOL_TYPE and STATUS here.
HistoricalTargets ==
    << <<"UF", <<"SG_UF_PROVA">> >>,
       <<"SCHOOL_TYPE", <<"TP_ESCOLA">> >>,
       <<"STATUS", <<"TP_ST_CONCLUSAO">> >>,
       <<"Natural_Sciences", <<"NU_NOTA_CN">> >>,
       <<"Humanities", <<"NU_NOTA_CH">> >>,
       <<"Language", <<"NU_NOTA_LC">> >>,
       <<"Math", <<"NU_NOTA_MT">> >>,
       <<"Essay", <<"NU_NOTA_REDACAO">> >> >>

\* UF_REGION_MAP (identical in the four ENEM scripts).
UF_REGION_MAP(uf) ==
    CASE uf \in {"RO", "AC", "AM", "RR", "PA", "AP", "TO"} -> "North"
      [] uf \in {"MA", "PI", "CE", "RN", "PB", "PE", "AL", "SE", "BA"} -> "Northeast"
      [] uf \in {"MG", "ES", "RJ", "SP"} -> "Southeast"
      [] uf \in {"PR", "SC", "RS"} -> "South"
      [] uf \in {"MS", "MT", "GO", "DF"} -> "Center-West"
      [] OTHER -> "NaN"

-----------------------------------------------------------------------------
(* ENEM: the files the model reads. *)

\* A header with or without the UF, school-id, status and language-choice
\* columns; the network and the five score columns are always there.
Hdr(uf, st, sch, ling) ==
    (IF uf THEN <<"SG_UF_PROVA">> ELSE <<>>)
    \o (IF sch THEN <<"CO_ESCOLA">> ELSE <<>>)
    \o (IF st THEN <<"TP_ST_CONCLUSAO">> ELSE <<>>)
    \o <<"TP_ESCOLA", "NU_NOTA_CN", "NU_NOTA_CH", "NU_NOTA_LC", "NU_NOTA_MT",
         "NU_NOTA_REDACAO">>
    \o (IF ling THEN <<"TP_LINGUA">> ELSE <<>>)

EnemHeaders ==
    {Hdr(u, s, c, FALSE) : u \in BOOLEAN, s \in BOOLEAN, c \in BOOLEAN}
    \cup {Hdr(TRUE, TRUE, TRUE, TRUE)}
    \cup {<<"uf_prova", "TP_ST_CONCLUSAO", "TP_ESCOLA", "NU_NOTA_CN", "NU_NOTA_CH",
            "NU_NOTA_LC", "NU_NOTA_MT", "NU_NOTA_REDACAO">>}

\* One student's line, by field.
Row(uf, st, sch, typ, ling, cn, ch, lc, mt, red) ==
    [UF |-> uf, STATUS |-> st, SCHOOL_ID |-> sch, SCHOOL_TYPE |-> typ,
     SCHOOL_DEP |-> NA, Foreign_Lang_Select |-> ling,
     Natural_Sciences |-> cn, Humanities |-> ch, Language |-> lc, Math |-> mt,
     Essay |-> red]

\* The lines a file is made of: graduating (2) and non-graduating (3) students,
\* with and without a school id, zero and missing scores, a missing UF, a
\* score that is not a number.
EnemRows ==
    { Row("SP", 2, 1, 2, 0, 5, 6, 5, 7, 6),
      Row("SP", 2, NA, 3, 1, 4, 4, 0, 6, NA),
      Row("SP", 3, 1, 2, 0, 8, 8, 8, 8, 8),
      Row("RJ", 2, 1, NA, 0, 0, 0, 0, 0, 0),
      Row("RJ", 2, 1, 2, 1, NA, NA, NA, NA, NA),
      Row("RJ", 3, NA, 3, 0, 3, NA, 5, 0, 4),
      Row(NoUF, 2, 1, 2, 0, 7, 7, 7, 7, 7),
      Row("RJ", 2, 1, 3, 0, 6, 6, Malformed, 6, 6) }

-----------------------------------------------------------------------------
(* ENEM: pass 1, column resolution. *)

None == "None"

\* find_col_flexible: header_upper is a dict keyed by the upper-cased name, so
\* of two header entries equal up to case the later one is kept; candidates
\* are tried in order.
find_col_flexible(hdr, candidates) ==
    LET last(same) == hdr[CHOOSE i \in same : \A k \in same : k <= i]
        first(hits) == CHOOSE j \in hits : \A k \in hits : j <= k
        pick(uh, uc, hits) ==
            IF hits = {} THEN None
            ELSE last({i \in DOMAIN uh : uh[i] = uc[first(hits)]})
        search(uh, uc) ==
            pick(uh, uc, {j \in DOMAIN uc : \E i \in DOMAIN uh : uh[i] = uc[j]})
    IN  search([i \in DOMAIN hdr |-> Upper(hdr[i])] \o <<>>,
               [j \in DOMAIN candidates |-> Upper(candidates[j])] \o <<>>)

\* for k, v in TARGET_COLS.items(): found = ...; if found: col_map[found] = k
ResolveColMap(hdr, targets) ==
    LET found == {<<j, find_col_flexible(hdr, targets[j][2])>> : j \in DOMAIN targets}
        hit == {p \in found : p[2] # None}
        last(c) == CHOOSE p \in hit :
                      /\ p[2] = c
                      /\ \A q \in hit : q[2] = c => q[1] <= p[1]
    IN  [c \in {p[2] : p \in hit} |-> targets[last(c)[1]][1]]

\* The historical pipeline asks read_csv for cols_to_load by exact name.
HistoricalColMap ==
    [c \in {HistoricalTargets[j][2][1] : j \in DOMAIN HistoricalTargets} |->
        HistoricalTargets[CHOOSE j \in DOMAIN HistoricalTargets :
                              HistoricalTargets[j][2][1] = c][1]]

\* read_csv(usecols=...) then rename(columns=col_map): the loaded row has the
\* internal names of the resolved columns.
Load(r, cm) == [k \in Range(cm) |-> r[k]]

\* Every chunk of n file lines, as loaded under cm.
Chunks(n, cm) == {[i \in 1..n |-> Load(f[i], cm)] : f \in [1..n -> EnemRows]}

-----------------------------------------------------------------------------
(* ENEM: row metrics. *)

\* valid_scores = [c for c in score_cols if c in chunk.columns]
ValidScores(cols) == SelectSeq(ScoreCols, LAMBDA c : c \in cols)

\* chunk[scs].apply(pd.to_numeric, errors='coerce'): a cell that is not a
\* number becomes missing.
Coerce(r, scs) ==
    [c \in DOMAIN r |-> IF c \in SeqToSet(scs) /\ r[c] = Malformed THEN NA ELSE r[c]]

\* A kept row has a text in a score column: the column is of dtype object
\* and chunk[target_cols].pow(2) raises TypeError (the row mean may already).
HasText(kept, scs) ==
    \E i \in DOMAIN kept : \E c \in SeqToSet(scs) : kept[i][c] = Malformed

\* chunk[score_cols].replace(0, np.nan)
CleanZeros(r, scs) ==
    [c \in DOMAIN r |-> IF c \in SeqToSet(scs) /\ r[c] = 0 THEN NA ELSE r[c]]

\* chunk[scs].mean(axis=1): the mean of the row's non-missing scores, missing
\* when it has none; in units of 1/MeanScale.
RowMean(r, scs) ==
    LET vals == SelectSeq([i \in DOMAIN scs |-> r[scs[i]]], LAMBDA v : v # NA)
    IN  IF vals = <<>> THEN NA ELSE (MeanScale * SumSeq(vals)) \div Len(vals)

\* Adds a derived column to a row.
WithCol(r, c, v) == [k \in DOMAIN r \cup {c} |-> IF k = c THEN v ELSE r[k]]

\* np.select([isin([2]), isin([3])], [1, 0], default=nan) on TP_ESCOLA
PublicByType(r) ==
    IF r["SCHOOL_TYPE"] = 2 THEN 1 ELSE IF r["SCHOOL_TYPE"] = 3 THEN 0 ELSE NA

\* np.select([isin([1, 2, 3]), == 4], [1, 0], default=nan) on the dependency code
PublicByDep(r) ==
    IF r["SCHOOL_DEP"] \in {1, 2, 3} THEN 1 ELSE IF r["SCHOOL_DEP"] = 4 THEN 0 ELSE NA

-----------------------------------------------------------------------------
(* ENEM: per-chunk reduction and consolidation. *)

\* chunk.groupby('UF'): the group keys; rows with a missing UF fall in no group.
GroupKeys(rs) == {rs[i]["UF"] : i \in DOMAIN rs} \ {NoUF}

Group(rs, u) == SelectSeq(rs, LAMBDA r : r["UF"] = u)

\* One aggregated cell; k is <<column, statistic>>. The script names the "sq"
\* cell of column c "c_sq", and the Is_Public cells Public_Sum and
\* Network_Valid_Count.
Agg(rs, k) ==
    CASE k[2] = "sum" -> NumSum(rs, k[1])
      [] k[2] = "count" -> NumCount(rs, k[1])
      [] k[2] = "sq" -> SqSum(rs, k[1])

\* groupby('UF')[cols].agg([...]): one row of totals per UF of the chunk.
GroupAgg(rs, keys) == [u \in GroupKeys(rs) |-> [k \in keys |-> Agg(Group(rs, u), k)]]

\* The mutation of the consolidation in which a later chunk's totals replace
\* an earlier chunk's instead of being added to them.
MergeLastWins(storage) ==
    LET ufs == UNION {DOMAIN storage[i] : i \in DOMAIN storage}
        last(u) == CHOOSE i \in DOMAIN storage :
                      /\ u \in DOMAIN storage[i]
                      /\ \A j \in DOMAIN storage : u \in DOMAIN storage[j] => j <= i
    IN  [u \in ufs |-> storage[last(u)][u]]

\* pd.concat(agg_storage).groupby(level=0).sum()
MergeSum(storage) ==
    LET ufs == UNION {DOMAIN storage[i] : i \in DOMAIN storage}
        with(u) == SelectSeq(storage, LAMBDA ps : u \in DOMAIN ps)
    IN  [u \in ufs |->
            [k \in DOMAIN with(u)[1][u] |->
                SumSeq([i \in DOMAIN with(u) |-> with(u)[i][u][k]])]]

\* A quotient sum / count, kept exact; den = 0 is the NaN of 0 / 0.
Rat(n, d) == [num |-> n, den |-> d]

IsNaN(q) == q.den = 0

RatLess(a, b) == a.num * b.den < b.num * a.den

\* The unit of a column's totals: row means are in 1/MeanScale.
Unit(c) == IF c = "Mean_General" THEN MeanScale ELSE 1

\* A variance left as the subtraction gave it.
NoClip(x) == x

\* variance.clip(lower=0)
Clip(x) == IF x < 0 THEN 0 ELSE x

\* variance = sum_sq / count - mean ** 2, then clip(lower=0); the standard
\* deviation is its square root.
ClippedVariance(sum, count, sq, unit) ==
    LET n == sq * count - sum * sum
    IN  Rat(Clip(n), count * count * unit * unit)

\* sort_values('Mean_General', ascending=False): x has to precede y. Missing
\* means go last; the order of equal means is left open.
Precedes(x, y) ==
    /\ ~IsNaN(x.mean["Mean_General"])
    /\ \/ IsNaN(y.mean["Mean_General"])
       \/ RatLess(y.mean["Mean_General"], x.mean["Mean_General"])

SortedByMean(S) ==
    {s \in [1..Cardinality(S) -> S] :
        /\ \A i, j \in DOMAIN s : i # j => s[i] # s[j]
        /\ \A i, j \in DOMAIN s : i < j => ~Precedes(s[j], s[i])}

-----------------------------------------------------------------------------
(* ENEM: 04_process_enem_historical.py *)

\* A filter that keeps every status from 2 up instead of status 2 alone.
HistoricalFilterFrom2(chunk) == SelectSeq(chunk, LAMBDA r : r["STATUS"] >= 2)

\* chunk = chunk[chunk['TP_ST_CONCLUSAO'] == 2]
HistoricalFilter(chunk) == SelectSeq(chunk, LAMBDA r : r["STATUS"] = 2)

HistoricalPrepare(r) ==
    LET z == CleanZeros(r, ScoreCols)
    IN  WithCol(WithCol(z, "Mean_General", RowMean(z, ScoreCols)),
                "Is_Public", PublicByType(r))

HistoricalKeys ==
    ((ScoreSet \cup {"Mean_General"}) \X {"sum", "count", "sq"})
    \cup ({"Is_Public"} \X {"sum", "count"})

HistoricalChunkRes(kept) ==
    GroupAgg([i \in DOMAIN kept |-> HistoricalPrepare(kept[i])], HistoricalKeys)

\* One emitted row of the statistics tables (historical and legacy).
StatsRow(u, t, scs, grade) ==
    [UF |-> u, Region |-> UF_REGION_MAP(u), Grade |-> grade,
     mean |-> [c \in scs \cup {"Mean_General"} |->
                  Rat(t[<<c, "sum">>], t[<<c, "count">>] * Unit(c))],
     variance |-> [c \in scs \cup {"Mean_General"} |->
                  ClippedVariance(t[<<c, "sum">>], t[<<c, "count">>], t[<<c, "sq">>],
                                  Unit(c))],
     Public_Share |-> Rat(t[<<"Is_Public", "sum">>], t[<<"Is_Public", "count">>]),
     Network_Data_Coverage |->
         IF "Essay" \in scs
         THEN Rat(t[<<"Is_Public", "count">>], t[<<"Essay", "count">>])
         ELSE Rat(0, 0)]

HistoricalFinal(agg) == {StatsRow(u, agg[u], ScoreSet, "3EM") : u \in DOMAIN agg}

-----------------------------------------------------------------------------
(* ENEM: process_unified_enem_pypeline.py *)

UnifiedMode(cm) ==
    IF "STATUS" \in Range(cm) THEN "STRICT_3EM"
    ELSE IF "SCHOOL_ID" \in Range(cm) THEN "PROXY_3EM"
    ELSE "ALL_DATA"

\* A loop that keeps every row of the chunk.
UnifiedNoFilter(chunk, mode) == chunk

UnifiedFilter(chunk, mode) ==
    IF mode = "STRICT_3EM" THEN SelectSeq(chunk, LAMBDA r : r["STATUS"] = 2)
    ELSE IF mode = "PROXY_3EM" THEN SelectSeq(chunk, LAMBDA r : r["SCHOOL_ID"] # NA)
    ELSE chunk

UnifiedPrepare(r) ==
    LET n == Coerce(r, ValidScores(DOMAIN r))
        m == WithCol(n, "Mean_General", RowMean(n, ValidScores(DOMAIN r)))
    IN  IF "Foreign_Lang_Select" \in DOMAIN r
        THEN WithCol(m, "English_Score",
                     IF n["Foreign_Lang_Select"] = 0 THEN n["Language"] ELSE NA)
        ELSE m

UnifiedGroupCols(cols) ==
    SeqToSet(ValidScores(cols)) \cup {"Mean_General"}
    \cup (IF "Foreign_Lang_Select" \in cols THEN {"English_Score"} ELSE {})

UnifiedChunkRes(kept, cols) ==
    GroupAgg([i \in DOMAIN kept |-> UnifiedPrepare(kept[i])],
             UnifiedGroupCols(cols) \X {"sum", "count"})

UnifiedFinal(agg, mode) ==
    {[UF |-> u, Region |-> UF_REGION_MAP(u), Grade |-> mode,
      mean |-> [c \in {k[1] : k \in DOMAIN agg[u]} |->
                   Rat(agg[u][<<c, "sum">>], agg[u][<<c, "count">>] * Unit(c))],
      Sample_Size |-> agg[u][<<"Mean_General", "count">>]] : u \in DOMAIN agg}

-----------------------------------------------------------------------------
(* ENEM: cog_02_process_unified_enem_pypeline.py *)

Cog02Mode(cm) == IF "STATUS" \in Range(cm) THEN "STRICT_3EM" ELSE "PROXY_3EM"

\* The column the filter of a mode indexes the chunk with.
Cog02FilterCol(mode) == IF mode = "STRICT_3EM" THEN "STATUS" ELSE "SCHOOL_ID"

Cog02Filter(chunk, mode) ==
    IF mode = "STRICT_3EM" THEN SelectSeq(chunk, LAMBDA r : r["STATUS"] = 2)
    ELSE SelectSeq(chunk, LAMBDA r : r["SCHOOL_ID"] # NA)

Cog02Prepare(r) ==
    LET n == Coerce(r, ValidScores(DOMAIN r))
    IN  WithCol(WithCol(n, "Mean_General", RowMean(n, ValidScores(DOMAIN r))),
                "N_Students", 1)

Cog02ChunkRes(kept, cols) ==
    GroupAgg([i \in DOMAIN kept |-> Cog02Prepare(kept[i])],
             (SeqToSet(ValidScores(cols)) \cup {"Mean_General", "N_Students"}) \X {"sum"})

\* Every mean divides by total_n, the number of kept rows of the UF.
Cog02Final(agg, mode) ==
    {[UF |-> u, Region |-> UF_REGION_MAP(u), Grade |-> mode,
      mean |-> [c \in {k[1] : k \in DOMAIN agg[u]} \ {"N_Students"} |->
                   Rat(agg[u][<<c, "sum">>], agg[u][<<"N_Students", "sum">>] * Unit(c))],
      N_Students |-> agg[u][<<"N_Students", "sum">>]] : u \in DOMAIN agg}

-----------------------------------------------------------------------------
(* ENEM: legacy/99_04_process_enem_triennium.py *)

\* has_status_col
LegacyHasStatus(cm) == "STATUS" \in Range(cm)

\* The mutation of the tag in which the table is always labelled 3EM.
LegacyGradeAlways3EM(has_status_col) == "3EM"

\* final_df['Grade'] = '3EM' if has_status_col else 'ALL'
LegacyGrade(has_status_col) == IF has_status_col THEN "3EM" ELSE "ALL"

LegacyFilter(chunk, has_status_col) ==
    IF has_status_col THEN SelectSeq(chunk, LAMBDA r : r["STATUS"] = 2) ELSE chunk

LegacyPrepare(r) ==
    LET ps == ValidScores(DOMAIN r)
        z == IF ps # <<>> THEN CleanZeros(r, ps) ELSE r
        m == WithCol(z, "Mean_General", IF ps # <<>> THEN RowMean(z, ps) ELSE NA)
    IN  WithCol(m, "Is_Public",
                IF "SCHOOL_TYPE" \in DOMAIN r THEN PublicByType(r)
                ELSE IF "SCHOOL_DEP" \in DOMAIN r THEN PublicByDep(r)
                ELSE NA)

LegacyKeys(cols) ==
    ((SeqToSet(ValidScores(cols)) \cup {"Mean_General"}) \X {"sum", "count", "sq"})
    \cup ({"Is_Public"} \X {"sum", "count"})

LegacyChunkRes(kept, cols) ==
    GroupAgg([i \in DOMAIN kept |-> LegacyPrepare(kept[i])], LegacyKeys(cols))

LegacyFinal(agg, has_status_col) ==
    {StatsRow(u, agg[u], {c \in ScoreSet : <<c, "sum">> \in DOMAIN agg[u]},
              LegacyGrade(has_status_col)) : u \in DOMAIN agg}

-----------------------------------------------------------------------------
(* ENEM: the state machine of EnemPipeline.process. *)

\* After EnemPipeline(year, file_path): nothing read yet.
EnemInit ==
    /\ variant \in EnemVariants
    /\ header \in EnemHeaders
    /\ chunk_size \in 1..MaxChunk
    /\ pc = "start"
    /\ col_map = <<>>
    /\ filter_mode = "UNSET"
    /\ rows = <<>>
    /\ agg_storage = <<>>
    /\ full_agg = <<>>
    /\ final_df = <<>>
    /\ outcome = "running"
    /\ err = {}

\* No ENEM script runs.
EnemIdle ==
    /\ variant = "none"
    /\ header = <<>>
    /\ chunk_size = 1
    /\ pc = "idle"
    /\ col_map = <<>>
    /\ filter_mode = "UNSET"
    /\ rows = <<>>
    /\ agg_storage = <<>>
    /\ full_agg = <<>>
    /\ final_df = <<>>
    /\ outcome = "idle"
    /\ err = {}

\* The except clause: the error is printed, nothing is written.
Raise(what) ==
    /\ pc' = "done"
    /\ outcome' = "exception"
    /\ err' = what

\* The sizes the next chunk of the reader can have: chunk_size rows, or fewer
\* at the end of the file.
ChunkLens == {n \in 1..chunk_size : Len(rows) + n <= MaxRows}

AfterChunk(n) == IF n < chunk_size THEN "eof" ELSE "read"

\* historical: the reader is created with the fixed cols_to_load; read_csv
\* raises when one of them is not in the file.
HistoricalOpen ==
    /\ variant = "historical" /\ pc = "start"
    /\ LET missing == DOMAIN HistoricalColMap \ SeqToSet(header)
       IN  IF missing # {}
           THEN Raise(missing) /\ UNCHANGED col_map
           ELSE /\ pc' = "read"
                /\ col_map' = HistoricalColMap
                /\ UNCHANGED <<outcome, err>>
    /\ UNCHANGED <<variant, header, chunk_size, filter_mode, rows, agg_storage,
                   full_agg, final_df>>
    /\ UNCHANGED notEnem

HistoricalChunk ==
    /\ variant = "historical" /\ pc = "read"
    /\ \E n \in ChunkLens : \E chunk \in Chunks(n, col_map) :
          /\ rows' = rows \o chunk
          /\ LET kept == HistoricalFilter(chunk)
             IN  IF HasText(kept, ScoreCols)
                 THEN Raise({"TypeError"}) /\ UNCHANGED agg_storage
                 ELSE /\ pc' = AfterChunk(n)
                      /\ agg_storage' = IF kept = <<>> THEN agg_storage
                                        ELSE Append(agg_storage, HistoricalChunkRes(kept))
                      /\ UNCHANGED <<outcome, err>>
    /\ UNCHANGED <<variant, header, chunk_size, col_map, filter_mode, full_agg,
                   final_df>>
    /\ UNCHANGED notEnem

HistoricalConsolidate ==
    /\ variant = "historical" /\ pc \in {"read", "eof"}
    /\ pc' = "done"
    /\ IF agg_storage = <<>>
       THEN outcome' = "no_data" /\ UNCHANGED <<full_agg, final_df>>
       ELSE /\ full_agg' = MergeSum(agg_storage)
            /\ final_df' \in SortedByMean(HistoricalFinal(full_agg'))
            /\ outcome' = "saved"
    /\ UNCHANGED <<variant, header, chunk_size, col_map, filter_mode, rows,
                   agg_storage, err>>
    /\ UNCHANGED notEnem

\* unified, pass 1: col_map and the methodology decision.
UnifiedDetect ==
    /\ variant = "unified" /\ pc = "start"
    /\ col_map' = ResolveColMap(header, UnifiedTargets)
    /\ filter_mode' = UnifiedMode(col_map')
    /\ pc' = "read"
    /\ UNCHANGED <<variant, header, chunk_size, rows, agg_storage, full_agg,
                   final_df, outcome, err>>
    /\ UNCHANGED notEnem

\* The KeyError of a chunk that passed the filter, if any.
UnifiedKeyError(cols) ==
    IF "Foreign_Lang_Select" \in cols /\ "Language" \notin cols THEN {"Language"}
    ELSE IF "UF" \notin cols THEN {"UF"}
    ELSE {}

UnifiedChunk ==
    /\ variant = "unified" /\ pc = "read"
    /\ \E n \in ChunkLens : \E chunk \in Chunks(n, col_map) :
          /\ rows' = rows \o chunk
          /\ LET kept == UnifiedFilter(chunk, filter_mode)
             IN  IF kept = <<>>
                 THEN pc' = AfterChunk(n) /\ UNCHANGED <<agg_storage, outcome, err>>
                 ELSE IF UnifiedKeyError(Range(col_map)) # {}
                 THEN Raise(UnifiedKeyError(Range(col_map))) /\ UNCHANGED agg_storage
                 ELSE /\ pc' = AfterChunk(n)
                      /\ agg_storage' =
                            Append(agg_storage, UnifiedChunkRes(kept, Range(col_map)))
                      /\ UNCHANGED <<outcome, err>>
    /\ UNCHANGED <<variant, header, chunk_size, col_map, filter_mode, full_agg,
                   final_df>>
    /\ UNCHANGED notEnem

UnifiedConsolidate ==
    /\ variant = "unified" /\ pc \in {"read", "eof"}
    /\ pc' = "done"
    /\ IF agg_storage = <<>>
       THEN outcome' = "no_data" /\ UNCHANGED <<full_agg, final_df>>
       ELSE /\ full_agg' = MergeSum(agg_storage)
            /\ final_df' \in SortedByMean(UnifiedFinal(full_agg', filter_mode))
            /\ outcome' = "saved"
    /\ UNCHANGED <<variant, header, chunk_size, col_map, filter_mode, rows,
                   agg_storage, err>>
    /\ UNCHANGED notEnem

\* cog_02, pass 1.
Cog02Detect ==
    /\ variant = "cog02" /\ pc = "start"
    /\ col_map' = ResolveColMap(header, Cog02Targets)
    /\ filter_mode' = Cog02Mode(col_map')
    /\ pc' = "read"
    /\ UNCHANGED <<variant, header, chunk_size, rows, agg_storage, full_agg,
                   final_df, outcome, err>>
    /\ UNCHANGED notEnem

Cog02Chunk ==
    /\ variant = "cog02" /\ pc = "read"
    /\ \E n \in ChunkLens : \E chunk \in Chunks(n, col_map) :
          /\ rows' = rows \o chunk
          /\ IF Cog02FilterCol(filter_mode) \notin Range(col_map)
             THEN Raise({Cog02FilterCol(filter_mode)}) /\ UNCHANGED agg_storage
             ELSE LET kept == Cog02Filter(chunk, filter_mode)
                  IN  IF kept = <<>>
                      THEN pc' = AfterChunk(n) /\ UNCHANGED <<agg_storage, outcome, err>>
                      ELSE IF "UF" \notin Range(col_map)
                      THEN Raise({"UF"}) /\ UNCHANGED agg_storage
                      ELSE /\ pc' = AfterChunk(n)
                           /\ agg_storage' =
                                 Append(agg_storage, Cog02ChunkRes(kept, Range(col_map)))
                           /\ UNCHANGED <<outcome, err>>
    /\ UNCHANGED <<variant, header, chunk_size, col_map, filter_mode, full_agg,
                   final_df>>
    /\ UNCHANGED notEnem

\* cog_02 has no guard on an empty agg_storage: pd.concat([]) raises; and the
\* final column selection names all five score columns.
Cog02Consolidate ==
    /\ variant = "cog02" /\ pc \in {"read", "eof"}
    /\ IF agg_storage = <<>>
       THEN Raise({"No objects to concatenate"}) /\ UNCHANGED <<full_agg, final_df>>
       ELSE IF ScoreSet \ Range(col_map) # {}
       THEN /\ Raise(ScoreSet \ Range(col_map))
            /\ full_agg' = MergeSum(agg_storage)
            /\ UNCHANGED final_df
       ELSE /\ pc' = "done"
            /\ full_agg' = MergeSum(agg_storage)
            /\ final_df' \in SortedByMean(Cog02Final(full_agg', filter_mode))
            /\ outcome' = "saved"
            /\ UNCHANGED err
    /\ UNCHANGED <<variant, header, chunk_size, col_map, filter_mode, rows,
                   agg_storage>>
    /\ UNCHANGED notEnem

\* legacy: columns are mapped, and a file without a UF column is refused
\* before the reader is created.
LegacyDetect ==
    /\ variant = "legacy" /\ pc = "start"
    /\ col_map' = ResolveColMap(header, LegacyTargets)
    /\ IF "UF" \notin Range(col_map')
       THEN /\ pc' = "done"
            /\ outcome' = "missing_mandatory"
            /\ err' = {"UF"}
       ELSE pc' = "read" /\ UNCHANGED <<outcome, err>>
    /\ UNCHANGED <<variant, header, chunk_size, filter_mode, rows, agg_storage,
                   full_agg, final_df>>
    /\ UNCHANGED notEnem

LegacyChunk ==
    /\ variant = "legacy" /\ pc = "read"
    /\ \E n \in ChunkLens : \E chunk \in Chunks(n, col_map) :
          /\ rows' = rows \o chunk
          /\ LET kept == LegacyFilter(chunk, LegacyHasStatus(col_map))
             IN  IF HasText(kept, ValidScores(Range(col_map)))
                 THEN Raise({"TypeError"}) /\ UNCHANGED agg_storage
                 ELSE /\ pc' = AfterChunk(n)
                      /\ agg_storage' = IF kept = <<>> THEN agg_storage
                                        ELSE Append(agg_storage,
                                                    LegacyChunkRes(kept, Range(col_map)))
                      /\ UNCHANGED <<outcome, err>>
    /\ UNCHANGED <<variant, header, chunk_size, col_map, filter_mode, full_agg,
                   final_df>>
    /\ UNCHANGED notEnem

\* The file name is taken from final_df['Grade'].iloc[0], which raises on a
\* table without rows.
LegacyConsolidate ==
    /\ variant = "legacy" /\ pc \in {"read", "eof"}
    /\ IF agg_storage = <<>>
       THEN /\ pc' = "done"
            /\ outcome' = "no_data"
            /\ UNCHANGED <<full_agg, final_df, err>>
       ELSE IF MergeSum(agg_storage) = <<>>
       THEN /\ Raise({"iloc"})
            /\ full_agg' = MergeSum(agg_storage)
            /\ UNCHANGED final_df
       ELSE /\ pc' = "done"
            /\ full_agg' = MergeSum(agg_storage)
            /\ final_df' \in SortedByMean(LegacyFinal(full_agg', LegacyHasStatus(col_map)))
            /\ outcome' = "saved"
            /\ UNCHANGED err
    /\ UNCHANGED <<variant, header, chunk_size, col_map, filter_mode, rows,
                   agg_storage>>
    /\ UNCHANGED notEnem

EnemNext ==
    \/ HistoricalOpen \/ HistoricalChunk \/ HistoricalConsolidate
    \/ UnifiedDetect \/ UnifiedChunk \/ UnifiedConsolidate
    \/ Cog02Detect \/ Cog02Chunk \/ Cog02Consolidate
    \/ LegacyDetect \/ LegacyChunk \/ LegacyConsolidate

-----------------------------------------------------------------------------
(* ENEM: what the properties are stated with. *)

Saved == pc = "done" /\ outcome = "saved"

Cols == Range(col_map)

\* The cohort filter of the running script, applied to a sequence of rows.
FilterOf(rs) ==
    CASE variant = "historical" -> HistoricalFilter(rs)
      [] variant = "unified" -> UnifiedFilter(rs, filter_mode)
      [] variant = "cog02" -> Cog02Filter(rs, filter_mode)
      [] variant = "legacy" -> LegacyFilter(rs, LegacyHasStatus(col_map))

\* The per-chunk reduction of the running script, applied to kept rows.
ReduceOf(kept) ==
    CASE variant = "historical" -> HistoricalChunkRes(kept)
      [] variant = "unified" -> UnifiedChunkRes(kept, Cols)
      [] variant = "cog02" -> Cog02ChunkRes(kept, Cols)
      [] variant = "legacy" -> LegacyChunkRes(kept, Cols)

\* The finalize step of the running script.
FinalOf(agg) ==
    CASE variant = "historical" -> HistoricalFinal(agg)
      [] variant = "unified" -> UnifiedFinal(agg, filter_mode)
      [] variant = "cog02" -> Cog02Final(agg, filter_mode)
      [] variant = "legacy" -> LegacyFinal(agg, LegacyHasStatus(col_map))

\* The status == 2 filter is the one in force.
Strict ==
    CASE variant = "historical" -> TRUE
      [] variant = "legacy" -> LegacyHasStatus(col_map)
      [] OTHER -> filter_mode = "STRICT_3EM"

StrictTags == {"3EM", "STRICT_3EM"}
ProxyTags == {"PROXY_3EM"}
AllTags == {"ALL", "ALL_DATA"}

Graduating(rs) == SelectSeq(rs, LAMBDA r : r["STATUS"] = 2)

\* C1: batch invariance. When a table is saved, the consolidated per-UF
\* totals (sums, counts, sums of squares, public sum, network-valid count),
\* obtained by reducing each chunk and adding the partial states, are the
\* totals of reducing all accepted rows of the file as one chunk, and the
\* emitted rows are those of that one-chunk reduction.
C1_BatchInvariance ==
    Saved =>
        /\ full_agg = ReduceOf(FilterOf(rows))
        /\ SeqToSet(final_df) = FinalOf(ReduceOf(FilterOf(rows)))

\* Two chunks contributed partial states, with scores in them, for one UF.
C1_Witness ==
    /\ Saved
    /\ variant \in {"historical", "unified"}
    /\ Len(agg_storage) >= 2
    /\ \E u \in DOMAIN agg_storage[1] \cap DOMAIN agg_storage[2] :
          /\ agg_storage[1][u][<<"Math", "sum">>] > 0
          /\ agg_storage[2][u][<<"Math", "sum">>] > 0

\* The emitted mean of a column for a UF, NaN when the table has no such row.
EmittedMean(table, u, c) ==
    IF \E x \in table : x.UF = u
    THEN (CHOOSE x \in table : x.UF = u).mean[c]
    ELSE Rat(0, 0)

\* The rows of rs with every zero score replaced by a missing one.
ZeroAsMissing(rs) == [i \in DOMAIN rs |-> CleanZeros(rs[i], ValidScores(DOMAIN rs[i]))]

\* C2: zero-sentinel exclusion, in every ENEM script. For every subject and
\* UF, the emitted mean is not lower than the mean the script emits for the
\* same file without the records whose score in that subject is 0; and the
\* totals are those of the file with its zero scores read as missing (a zero
\* enters neither the subject's sum and count nor the row's composite).
C2_ZeroExcluded ==
    Saved =>
        /\ \A c \in ScoreSet \cap Cols : \A u \in DOMAIN full_agg :
              LET without == SelectSeq(FilterOf(rows), LAMBDA r : r[c] # 0)
                  other == EmittedMean(FinalOf(ReduceOf(without)), u, c)
                  mine == EmittedMean(SeqToSet(final_df), u, c)
              IN  ~IsNaN(other) => ~IsNaN(mine) /\ ~RatLess(mine, other)
        /\ full_agg = ReduceOf(ZeroAsMissing(FilterOf(rows)))

\* No candidate name of the geographic unit is in the header.
HeaderLacksUF ==
    \A i \in DOMAIN header :
        Upper(header[i]) \notin (IF variant = "historical" THEN {"SG_UF_PROVA"}
                                 ELSE {"SG_UF_PROVA", "UF_PROVA", "SG_UF_ESC"})

\* C4: mandatory-field failure. With a header that has no candidate column of
\* the geographic unit, processing goes from column resolution straight to an
\* error outcome that names the field: no row is ever read, no run continues
\* with a column map without the geo unit, and no table is emitted.
C4_MandatoryGeoUnit ==
    (HeaderLacksUF /\ pc # "start") =>
        /\ pc = "done"
        /\ outcome \in {"exception", "missing_mandatory"}
        /\ err \cap {"UF", "SG_UF_PROVA"} # {}
        /\ rows = <<>>
        /\ final_df = <<>>

\* C5: cohort policy selection STRICT > PROXY > ALL_DATA in the scripts that
\* choose a filter mode: STRICT iff the status column resolved, PROXY iff it
\* did not and the school-id column did, ALL_DATA when neither did; and with
\* neither (and a UF column) the run accepts every row and does not fail.
C5_PolicyPriority ==
    (variant \in {"unified", "cog02"} /\ pc # "start") =>
        /\ filter_mode = "STRICT_3EM" <=> "STATUS" \in Cols
        /\ filter_mode = "PROXY_3EM" <=> ("STATUS" \notin Cols /\ "SCHOOL_ID" \in Cols)
        /\ filter_mode = "ALL_DATA" <=> ("STATUS" \notin Cols /\ "SCHOOL_ID" \notin Cols)
        /\ ("STATUS" \notin Cols /\ "SCHOOL_ID" \notin Cols /\ "UF" \in Cols) =>
              /\ outcome # "exception"
              /\ Saved => full_agg = ReduceOf(rows)

C7_StrictAcceptsStatus2 ==
    [][(pc = "read" /\ Strict /\ rows' # rows /\ outcome' # "exception") =>
          LET chunk == SubSeq(rows', Len(rows) + 1, Len(rows'))
              acc == Graduating(chunk)
          IN  /\ acc = <<>> => agg_storage' = agg_storage
              /\ acc # <<>> => agg_storage' = Append(agg_storage, ReduceOf(acc))]_vars

\* A strict run saved a table from a file that held a scored status-3 row.
C7_Witness ==
    /\ Saved
    /\ Strict
    /\ \E i \in DOMAIN rows : rows[i]["STATUS"] = 3 /\ rows[i]["Math"] > 0
    /\ \E i \in DOMAIN rows : rows[i]["STATUS"] = 2

\* C8: no zero-count rows. Every row of a saved ENEM table stands on at least
\* one record with a composite score: its composite mean is a quotient with
\* a positive count, never 0 / 0.
C8_NoZeroCountRows ==
    Saved => \A i \in DOMAIN final_df : ~IsNaN(final_df[i].mean["Mean_General"])

-----------------------------------------------------------------------------
(* SAEB: cells, tables and the files the model reads. *)

\* Longest TS_ESCOLA file, in rows.
MaxSchools == 2

IsDigits(s) ==
    \A i \in 1..Len(s) :
        SubSeq(s, i, i) \in {"0", "1", "2", "3", "4", "5", "6", "7", "8", "9"}

DigitVal(c) ==
    CASE c = "0" -> 0 [] c = "1" -> 1 [] c = "2" -> 2 [] c = "3" -> 3
      [] c = "4" -> 4 [] c = "5" -> 5 [] c = "6" -> 6 [] c = "7" -> 7
      [] c = "8" -> 8 [] c = "9" -> 9

RECURSIVE ToInt(_)
ToInt(s) ==
    IF s = "" THEN 0
    ELSE 10 * ToInt(SubSeq(s, 1, Len(s) - 1)) + DigitVal(SubSeq(s, Len(s), Len(s)))

\* pd.to_numeric(cell, errors='coerce') of a UF cell: an empty or non-numeric
\* cell is missing.
ToNumeric(cell) == IF cell # "" /\ IsDigits(cell) THEN ToInt(cell) ELSE NA

\* pd.api.types.is_numeric_dtype(df[col]): read_csv gives the column a numeric
\* dtype when each of its cells is a number or empty.
IsNumericDtype(rs, col) == \A i \in DOMAIN rs : IsDigits(rs[i][col])

\* IBGE_CODE_MAP of 01_process_saeb_2023_uf_region.py; .map() gives a missing
\* value for a code that is not a key.
IBGE_CODE_MAP(code) ==
    CASE code = 11 -> "RO" [] code = 12 -> "AC" [] code = 13 -> "AM"
      [] code = 14 -> "RR" [] code = 15 -> "PA" [] code = 16 -> "AP"
      [] code = 17 -> "TO"
      [] code = 21 -> "MA" [] code = 22 -> "PI" [] code = 23 -> "CE"
      [] code = 24 -> "RN" [] code = 25 -> "PB" [] code = 26 -> "PE"
      [] code = 27 -> "AL" [] code = 28 -> "SE" [] code = 29 -> "BA"
      [] code = 31 -> "MG" [] code = 32 -> "ES" [] code = 33 -> "RJ"
      [] code = 35 -> "SP"
      [] code = 41 -> "PR" [] code = 42 -> "SC" [] code = 43 -> "RS"
      [] code = 50 -> "MS" [] code = 51 -> "MT" [] code = 52 -> "GO"
      [] code = 53 -> "DF"
      [] OTHER -> NoUF

\* IBGE_TO_SIGLA of cog_03 and of 01_process_saeb_historical.py.
IBGE_TO_SIGLA(code) ==
    CASE code = 11 -> "RO" [] code = 12 -> "AC" [] code = 13 -> "AM"
      [] code = 14 -> "RR" [] code = 15 -> "PA" [] code = 16 -> "AP"
      [] code = 17 -> "TO" [] code = 21 -> "MA" [] code = 22 -> "PI"
      [] code = 23 -> "CE" [] code = 24 -> "RN" [] code = 25 -> "PB"
      [] code = 26 -> "PE" [] code = 27 -> "AL" [] code = 28 -> "SE"
      [] code = 29 -> "BA" [] code = 31 -> "MG" [] code = 32 -> "ES"
      [] code = 33 -> "RJ" [] code = 35 -> "SP" [] code = 41 -> "PR"
      [] code = 42 -> "SC" [] code = 43 -> "RS" [] code = 50 -> "MS"
      [] code = 51 -> "MT" [] code = 52 -> "GO" [] code = 53 -> "DF"
      [] OTHER -> NoUF

\* SaebPipeline.get_region of cog_03.
get_region(uf) ==
    CASE uf \in {"AM", "RR", "AP", "PA", "TO", "RO", "AC"} -> "Norte"
      [] uf \in {"MA", "PI", "CE", "RN", "PB", "PE", "AL", "SE", "BA"} -> "Nordeste"
      [] uf \in {"MT", "MS", "GO", "DF"} -> "Centro-Oeste"
      [] uf \in {"SP", "RJ", "ES", "MG"} -> "Sudeste"
      [] uf \in {"PR", "RS", "SC"} -> "Sul"
      [] OTHER -> "Unknown"

SaebScripts == {"saeb2023", "cog03", "saebhist", "cog01"}

SaebHeaders ==
    { <<"ID_UF", "MEDIA_EM_LP", "MEDIA_EM_MT">>,
      <<"ID_UF", "ID_DEPENDENCIA_ADM", "MEDIA_EM_LP", "MEDIA_EM_MT", "NU_PRESENTES_EM">>,
      <<"UF", "ID_DEPENDENCIA_ADM", "MEDIA_9EF_LP", "MEDIA_9EF_MT",
        "MEDIA_3EM_LP", "MEDIA_3EM_MT">>,
      <<"ID_DEPENDENCIA_ADM", "MEDIA_EM_LP", "MEDIA_EM_MT">>,
      <<"ID_UF", "ID_DEPENDENCIA_ADM">>,
      <<"UF", "ID_UF", "ID_DEPENDENCIA_ADM", "MEDIA_9EF_LP", "MEDIA_EM_LP",
        "MEDIA_EM_MT">>,
      <<"ID_UF", "MEDIA_9EF_LP", "MEDIA_9EF_MT", "MEDIA_3EM_LP_MT">> }

\* A school: its UF cell as text, its administrative dependency, its mean
\* scores of the 9th grade and of high school, and its students present.
School(uf, adm, lp9, mt9, lp3, mt3, qty) ==
    [uf |-> uf, adm |-> adm, lp9 |-> lp9, mt9 |-> mt9, lp3 |-> lp3, mt3 |-> mt3,
     qty |-> qty]

Schools ==
    { School("35", 2, 480, 480, 500, 520, 10),
      School("35", 4, NA, 500, 0, 480, 5),
      School("33", 1, 500, 520, 480, 500, NA),
      School("99", 2, 480, 500, 520, 520, 5),
      School("SP", NA, 520, 480, 520, 500, 10),
      School("XX", 4, 500, 500, 480, 480, 5),
      School("", 2, 520, 520, 500, NA, 10) }

\* What a column of the file holds of a school.
ColumnOf(h) ==
    CASE h \in {"ID_UF", "UF"} -> "uf"
      [] h = "ID_DEPENDENCIA_ADM" -> "adm"
      [] h = "MEDIA_9EF_LP" -> "lp9"
      [] h = "MEDIA_9EF_MT" -> "mt9"
      [] h \in {"MEDIA_EM_LP", "MEDIA_3EM_LP", "MEDIA_3EM_LP_MT"} -> "lp3"
      [] h \in {"MEDIA_EM_MT", "MEDIA_3EM_MT"} -> "mt3"
      [] h = "NU_PRESENTES_EM" -> "qty"

FileRow(s, hdr) == [h \in SeqToSet(hdr) |-> s[ColumnOf(h)]]

Files(hdr) ==
    UNION {[1..n -> {FileRow(s, hdr) : s \in Schools}] : n \in 0..MaxSchools}

\* pd.read_csv(..., usecols=cols)
ReadCsv(file, cols) == [i \in DOMAIN file |-> [c \in cols |-> file[i][c]]]

\* next((h for h in header if h in wanted), None)
FirstWhere(hdr, wanted) ==
    IF \E i \in DOMAIN hdr : hdr[i] \in wanted
    THEN hdr[CHOOSE i \in DOMAIN hdr :
                 hdr[i] \in wanted /\ \A j \in 1..(i - 1) : hdr[j] \notin wanted]
    ELSE None

\* The mean of a group as a quotient, rounded to two decimals (half to even)
\* and kept in hundredths.
Round2(q) ==
    LET n == q.num * 100
        fl == n \div q.den
        r2 == 2 * (n % q.den)
    IN  Rat(IF r2 > q.den \/ (r2 = q.den /\ fl % 2 = 1) THEN fl + 1 ELSE fl, 100)

\* The orders sort_values can leave a table in: a pair <<x, y>> of before
\* says that x has to precede y; rows that tie may come in either order.
Orderings(S, before) ==
    {s \in [1..Cardinality(S) -> S] :
        /\ \A i, j \in DOMAIN s : i # j => s[i] # s[j]
        /\ \A i, j \in DOMAIN s : i < j => <<s[j], s[i]>> \notin before}

\* dropna(subset=[c_lp, c_mt])
DropNa(rs, c_lp, c_mt) == SelectSeq(rs, LAMBDA r : r[c_lp] # NA /\ r[c_mt] # NA)

\* sort_values('SAEB_General', ascending=False)
GeneralBefore(x, y) == RatLess(y.SAEB_General, x.SAEB_General)

SortedByGeneral(S) ==
    Orderings(S, {p \in S \X S : GeneralBefore(p[1], p[2])})

\* The rows of rs whose UF is u (one group of groupby('UF')).
UfGroup(rs, u) == SelectSeq(rs, LAMBDA r : r["UF"] = u)

\* The keys of groupby('UF'): rows with a missing UF are in no group.
UfKeys(rs) == {rs[i]["UF"] : i \in DOMAIN rs} \ {NoUF}

-----------------------------------------------------------------------------
(* SAEB: 01_process_saeb_2023_uf_region.py *)

\* cols = ['ID_UF', 'MEDIA_EM_LP', 'MEDIA_EM_MT']
Saeb2023Cols == {"ID_UF", "MEDIA_EM_LP", "MEDIA_EM_MT"}

\* process_data(df): rows without both scores are dropped, ID_UF becomes an
\* integer (0 when it is not a number), then UF and Region by the two maps;
\* groupby(['Region', 'UF']) leaves out the rows with a missing key.
process_data(d) ==
    LET sub == DropNa(d, "MEDIA_EM_LP", "MEDIA_EM_MT")
        id(r) == IF ToNumeric(r["ID_UF"]) = NA THEN 0 ELSE ToNumeric(r["ID_UF"])
        withUF == [i \in DOMAIN sub |-> WithCol(sub[i], "UF", IBGE_CODE_MAP(id(sub[i])))]
        keys == {u \in UfKeys(withUF) : UF_REGION_MAP(u) # "NaN"}
        mt(u) == NumSum(UfGroup(withUF, u), "MEDIA_EM_MT")
        lp(u) == NumSum(UfGroup(withUF, u), "MEDIA_EM_LP")
        n(u) == Len(UfGroup(withUF, u))
    IN  {[Region |-> UF_REGION_MAP(u),
          UF |-> u,
          MEDIA_EM_MT |-> Round2(Rat(mt(u), n(u))),
          MEDIA_EM_LP |-> Round2(Rat(lp(u), n(u))),
          SAEB_General |-> Round2(Rat(mt(u) + lp(u), 2 * n(u)))] : u \in keys}

\* The rows of process_data that have both scores and no Region.
Saeb2023Unmapped(d) ==
    LET sub == DropNa(d, "MEDIA_EM_LP", "MEDIA_EM_MT")
        id(r) == IF ToNumeric(r["ID_UF"]) = NA THEN 0 ELSE ToNumeric(r["ID_UF"])
    IN  SelectSeq(sub, LAMBDA r : UF_REGION_MAP(IBGE_CODE_MAP(id(r))) = "NaN")

\* if df['Region'].isna().any(): print("[WARNING] Rows unmapped to Region.")
Saeb2023Warning(d) ==
    IF Saeb2023Unmapped(d) # <<>> THEN <<[msg |-> "Rows unmapped to Region."]>>
    ELSE <<>>

-----------------------------------------------------------------------------
(* SAEB: cog_03_process_unified_saeb_pypeline.py *)

\* The first of the indices in S, 0 when there is none.
FirstIndex(S) ==
    IF S = {} THEN 0 ELSE CHOOSE i \in S : \A j \in S : i <= j

\* The header entry at index i, None for index 0.
At(hdr, i) == IF i = 0 THEN None ELSE hdr[i]

UpperAll(hdr) == [i \in DOMAIN hdr |-> Upper(hdr[i])] \o <<>>

find_col_flexible_saeb(hdr, candidates, substring_fallback) ==
    LET containing(up, sub) ==
            At(hdr, FirstIndex({i \in DOMAIN hdr : Contains(up[i], sub)}))
        pick(exact) ==
            IF exact # None THEN exact
            ELSE IF substring_fallback # None
            THEN containing(UpperAll(hdr), Upper(substring_fallback))
            ELSE None
    IN  pick(find_col_flexible(hdr, candidates))

get_quantity_column(hdr, grade) ==
    find_col_flexible(hdr,
        <<"NU_PRESENTES_" \o grade, "NU_PRESENTES_" \o grade \o "_LP",
          "QTD_ALUNOS_" \o grade, "N_ALUNOS_" \o grade, "NU_PRESENTES",
          IF grade = "3EM" THEN "NU_PRESENTES_EM" ELSE "X_IGNORE",
          IF grade = "3EM" THEN "NU_PRESENTES_EM_LP" ELSE "X_IGNORE">>)

find_grade_columns(hdr, grade) ==
    LET has(up, i, w) == Contains(up[i], w)
        score(up, i) == has(up, i, "MEDIA") \/ has(up, i, "PROFICIENCIA")
        lp_of(up) == At(hdr, FirstIndex({i \in DOMAIN hdr :
                  /\ score(up, i) /\ has(up, i, grade)
                  /\ has(up, i, "LP") \/ has(up, i, "LINGUA")}))
        mt_of(up) == At(hdr, FirstIndex({i \in DOMAIN hdr :
                  /\ score(up, i) /\ has(up, i, grade)
                  /\ has(up, i, "MT") \/ has(up, i, "MAT")}))
        em(up, tag) == At(hdr, FirstIndex({i \in DOMAIN hdr :
                  has(up, i, "MEDIA") /\ has(up, i, "_EM_") /\ has(up, i, tag)}))
        cols(up, lp0, mt0, qty0) ==
            LET fallback == (lp0 = None \/ mt0 = None) /\ grade = "3EM"
            IN  [lp |-> IF fallback THEN em(up, "LP") ELSE lp0,
                 mt |-> IF fallback THEN em(up, "MT") ELSE mt0,
                 qty |-> IF fallback /\ qty0 = None
                         THEN get_quantity_column(hdr, "EM") ELSE qty0]
        search(up) == cols(up, lp_of(up), mt_of(up), get_quantity_column(hdr, grade))
    IN  search(UpperAll(hdr))

Cog03Adm(hdr) ==
    find_col_flexible_saeb(hdr,
        <<"ID_DEPENDENCIA_ADM", "IN_PUBLICA", "ID_REDE", "TP_DEPENDENCIA">>,
        "DEPENDENCIA")

Cog03Uf(hdr) == find_col_flexible_saeb(hdr, <<"ID_UF", "CO_UF", "UF", "SG_UF">>, None)

\* One pass of the grade loop up to dropna: the file is read again, Is_Public
\* is 0 for dependency 4 and 1 otherwise, the network filter is applied, UF
\* is the sigla of a numeric column and the cell itself of any other column.
Cog03Sub(file, g, col_adm, col_uf, network) ==
    LET d == ReadCsv(file, {col_uf, col_adm, g.lp, g.mt, g.qty} \ {None})
        is_public(r) == IF col_adm # None /\ r[col_adm] = 4 THEN 0 ELSE 1
        f == IF network = "PUBLIC" THEN SelectSeq(d, LAMBDA r : is_public(r) = 1)
             ELSE IF network = "PRIVATE" THEN SelectSeq(d, LAMBDA r : is_public(r) = 0)
             ELSE d
        numeric == IsNumericDtype(d, col_uf)
        uf(r) == IF numeric THEN IBGE_TO_SIGLA(ToNumeric(r[col_uf])) ELSE r[col_uf]
        qty(r) == IF g.qty = None THEN 0 ELSE IF r[g.qty] = NA THEN 0 ELSE r[g.qty]
        std == [i \in DOMAIN f |->
                  [UF |-> uf(f[i]), LP |-> f[i][g.lp], MT |-> f[i][g.mt],
                   QTY |-> qty(f[i]),
                   TEMP_ADM |-> IF col_adm = None THEN NA ELSE f[i][col_adm],
                   Is_Public |-> is_public(f[i])]]
    IN  DropNa(std, "LP", "MT")

\* groupby('UF').agg(...) and the columns derived from it.
Cog03Table(sub, grade, yr) ==
    {[Region |-> get_region(u),
      UF |-> u,
      Year |-> yr,
      Grade |-> grade,
      SAEB_General |-> Rat(NumSum(UfGroup(sub, u), "LP") + NumSum(UfGroup(sub, u), "MT"),
                           2 * Len(UfGroup(sub, u))),
      Math_Mean |-> Rat(NumSum(UfGroup(sub, u), "MT"), Len(UfGroup(sub, u))),
      Language_Mean |-> Rat(NumSum(UfGroup(sub, u), "LP"), Len(UfGroup(sub, u))),
      N_Students |-> NumSum(UfGroup(sub, u), "QTY")] : u \in UfKeys(sub)}

\* 'Is_Public': 'mean' of the grouped frame, by UF: the column the frame
\* names Public_Share (the saved tables do not carry it).
Cog03PublicShare(sub) ==
    [u \in UfKeys(sub) |->
        Rat(NumSum(UfGroup(sub, u), "Is_Public"), Len(UfGroup(sub, u)))]

-----------------------------------------------------------------------------
(* SAEB: 01_process_saeb_historical.py *)

\* self.column_hints[year][grade], with None where there is no hint.
column_hints(yr, g) ==
    CASE yr = 2023 /\ g = "3EM" -> [LP |-> "MEDIA_EM_LP", MT |-> "MEDIA_EM_MT"]
      [] yr = 2021 /\ g = "3EM" -> [LP |-> "MEDIA_3EM_LP", MT |-> "MEDIA_3EM_MT"]
      [] yr = 2017 /\ g \in {"5EF", "9EF", "3EM"} ->
            [LP |-> "MEDIA_" \o g \o "_LP", MT |-> "MEDIA_" \o g \o "_MT"]
      [] OTHER -> [LP |-> None, MT |-> None]

\* min(candidates, key=len): the first of the shortest names.
MinByLen(cands) ==
    IF cands = <<>> THEN None
    ELSE cands[CHOOSE i \in DOMAIN cands :
                  /\ \A j \in DOMAIN cands : Len(cands[i]) <= Len(cands[j])
                  /\ \A j \in 1..(i - 1) : Len(cands[j]) > Len(cands[i])]

find_columns_heuristic(all_cols, grade_tag) ==
    LET has(up, i, w) == Contains(up[i], w)
        graded(up, i) ==
            /\ has(up, i, "MEDIA") \/ has(up, i, "PROFICIENCIA")
            /\ has(up, i, grade_tag) \/ (grade_tag = "3EM" /\ has(up, i, "_EM_"))
        lang(up, i) == has(up, i, "LP") \/ has(up, i, "LINGUA")
        math(up, i) == has(up, i, "MT") \/ has(up, i, "MAT")
        idx == [i \in DOMAIN all_cols |-> i]
        names(ix) == MinByLen([k \in DOMAIN ix |-> all_cols[ix[k]]] \o <<>>)
        search(up) ==
            [lp |-> names(SelectSeq(idx, LAMBDA i : graded(up, i) /\ lang(up, i))),
             mt |-> names(SelectSeq(idx, LAMBDA i :
                              graded(up, i) /\ ~lang(up, i) /\ math(up, i)))]
    IN  search(UpperAll(all_cols))

\* The columns of one grade: the hint of the year when both its columns are in
\* the header, else the heuristic.
GradeCols(hdr, yr, g) ==
    LET hint == column_hints(yr, g)
    IN  IF hint.LP \in SeqToSet(hdr) /\ hint.MT \in SeqToSet(hdr)
        THEN [lp |-> hint.LP, mt |-> hint.MT]
        ELSE find_columns_heuristic(hdr, g)

possible_grades == <<"5EF", "9EF", "3EM">>

\* The list that `if lp or mt` would build: a grade with one subject column.
grades_with_any(hdr, yr) ==
    LET cols == [i \in DOMAIN possible_grades |-> GradeCols(hdr, yr, possible_grades[i])]
        found == SelectSeq([i \in DOMAIN possible_grades |-> i],
                           LAMBDA i : cols[i].lp # None \/ cols[i].mt # None)
    IN  [k \in DOMAIN found |->
            [grade |-> possible_grades[found[k]], lp |-> cols[found[k]].lp,
             mt |-> cols[found[k]].mt]]

\* if lp and mt: grades_to_process.append(...)
grades_to_process(hdr, yr) ==
    LET cols == [i \in DOMAIN possible_grades |-> GradeCols(hdr, yr, possible_grades[i])]
        found == SelectSeq([i \in DOMAIN possible_grades |-> i],
                           LAMBDA i : cols[i].lp # None /\ cols[i].mt # None)
    IN  [k \in DOMAIN found |->
            [grade |-> possible_grades[found[k]], lp |-> cols[found[k]].lp,
             mt |-> cols[found[k]].mt]]

\* col_adm = next((c for c in header if 'DEPENDENCIA' in c), 'ID_DEPENDENCIA_ADM')
SaebHistAdm(hdr) ==
    LET c == At(hdr, FirstIndex({i \in DOMAIN hdr : Contains(hdr[i], "DEPENDENCIA")}))
    IN  IF c = None THEN "ID_DEPENDENCIA_ADM" ELSE c

SaebHistUf(hdr) ==
    At(hdr, FirstIndex({i \in DOMAIN hdr : hdr[i] \in {"ID_UF", "UF", "CO_UF"}}))

use_cols(col_uf, col_adm, items) ==
    ({col_uf, col_adm} \cup {items[i].lp : i \in DOMAIN items}
                       \cup {items[i].mt : i \in DOMAIN items}) \ {None}

\* The frame after the network filter, with its UF column.
SaebHistStd(d, col_uf, col_adm, network) ==
    LET f == IF network = "PUBLIC" THEN SelectSeq(d, LAMBDA r : r[col_adm] \in {1, 2, 3})
             ELSE IF network = "PRIVATE" THEN SelectSeq(d, LAMBDA r : r[col_adm] = 4)
             ELSE d
        numeric == IsNumericDtype(d, col_uf)
        uf(r) == IF numeric THEN IBGE_TO_SIGLA(ToNumeric(r[col_uf])) ELSE r[col_uf]
    IN  [i \in DOMAIN f |-> WithCol(f[i], "UF", uf(f[i]))]

\* The grades whose rows with both scores are not empty (dfs_to_save).
SaebHistKept(std, items) ==
    SelectSeq(items, LAMBDA it : DropNa(std, it.lp, it.mt) # <<>>)

\* grouped of one grade.
SaebHistGrouped(std, it, yr, network) ==
    LET sub == DropNa(std, it.lp, it.mt)
    IN  {[Year |-> yr,
          Network |-> network,
          UF |-> u,
          Grade |-> it.grade,
          SAEB_General |-> Rat(NumSum(UfGroup(sub, u), it.lp) + NumSum(UfGroup(sub, u), it.mt),
                               2 * Len(UfGroup(sub, u))),
          Math_Mean |-> Rat(NumSum(UfGroup(sub, u), it.mt), Len(UfGroup(sub, u))),
          Language_Mean |-> Rat(NumSum(UfGroup(sub, u), it.lp), Len(UfGroup(sub, u)))]
         : u \in UfKeys(sub)}

\* The place of a grade label in ascending string order.
GradeRank(g) == CASE g = "3EM" -> 1 [] g = "5EF" -> 2 [] g = "9EF" -> 3

\* sort_values(['Grade', 'SAEB_General'], ascending=[True, False])
GradeThenGeneralBefore(x, y) ==
    \/ GradeRank(x.Grade) < GradeRank(y.Grade)
    \/ x.Grade = y.Grade /\ RatLess(y.SAEB_General, x.SAEB_General)

-----------------------------------------------------------------------------
(* SAEB: cog_01_process_unified_pisa_pipeline.py *)

\* COLUMN_MAPPING.get(self.year, COLUMN_MAPPING['LEGACY'])[grade]
COLUMN_MAPPING(yr, g) ==
    CASE g = "9EF" -> [LP |-> "MEDIA_9EF_LP", MT |-> "MEDIA_9EF_MT"]
      [] g = "3EM" /\ yr = 2023 -> [LP |-> "MEDIA_EM_LP", MT |-> "MEDIA_EM_MT"]
      [] g = "3EM" /\ yr # 2023 -> [LP |-> "MEDIA_3EM_LP", MT |-> "MEDIA_3EM_MT"]

\* next((h for h in header if hint in h.upper()), None)
FirstWithHint(hdr, hint) ==
    LET first(up) == At(hdr, FirstIndex({i \in DOMAIN hdr : Contains(up[i], hint)}))
    IN  first(UpperAll(hdr))

\* The grades of ['9EF', '3EM'] with both columns found.
grades_found(hdr, yr) ==
    LET cols(g) == [grade |-> g,
                    lp |-> FirstWithHint(hdr, COLUMN_MAPPING(yr, g).LP),
                    mt |-> FirstWithHint(hdr, COLUMN_MAPPING(yr, g).MT)]
    IN  SelectSeq(<<cols("9EF"), cols("3EM")>>,
                  LAMBDA c : c.lp # None /\ c.mt # None)

\* col_net: the first name with ID_DEPENDENCIA or TP_DEPENDENCIA in it.
Cog01Net(hdr) ==
    LET first(up) == At(hdr, FirstIndex({i \in DOMAIN hdr :
                        Contains(up[i], "ID_DEPENDENCIA") \/ Contains(up[i], "TP_DEPENDENCIA")}))
    IN  first(UpperAll(hdr))

\* col_uf: the first name of the header that is one of the four UF names.
Cog01Uf(hdr) ==
    LET first(up) == At(hdr, FirstIndex({i \in DOMAIN hdr :
                        up[i] \in {"ID_UF", "CO_UF", "UF", "SG_UF"}}))
    IN  first(UpperAll(hdr))

\* SaebPipeline.get_region of this script.
get_region_cog01(uf) ==
    CASE uf \in {"AM", "RR", "AP", "PA", "TO", "RO", "AC"} -> "North"
      [] uf \in {"MA", "PI", "CE", "RN", "PB", "PE", "AL", "SE", "BA"} -> "Northeast"
      [] uf \in {"MT", "MS", "GO", "DF"} -> "Center-West"
      [] uf \in {"SP", "RJ", "ES", "MG"} -> "Southeast"
      [] uf \in {"PR", "RS", "SC"} -> "South"
      [] OTHER -> "Unknown"

\* agg of one grade: the mean by UF of the rows with both scores.
Cog01Table(sub, it, yr) ==
    {[Region |-> get_region_cog01(u),
      UF |-> u,
      Year |-> yr,
      Grade |-> it.grade,
      Language |-> Rat(NumSum(UfGroup(sub, u), it.lp), Len(UfGroup(sub, u))),
      Math |-> Rat(NumSum(UfGroup(sub, u), it.mt), Len(UfGroup(sub, u))),
      Mean_General |-> Rat(NumSum(UfGroup(sub, u), it.lp) + NumSum(UfGroup(sub, u), it.mt),
                           2 * Len(UfGroup(sub, u)))] : u \in UfKeys(sub)}

-----------------------------------------------------------------------------
(* SAEB: the state machine of the four scripts. *)

Years == {2021, 2023}

Networks == {"ALL", "PUBLIC", "PRIVATE"}

\* A script is about to run on a TS_ESCOLA file. The 2023 script takes neither
\* a year nor a network filter.
SaebInit ==
    /\ script \in SaebScripts
    /\ saeb_header \in SaebHeaders
    /\ ts_escola \in Files(saeb_header)
    /\ year \in (IF script = "saeb2023" THEN {2023} ELSE Years)
    /\ filter_network \in (IF script = "saeb2023" THEN {"ALL"} ELSE Networks)
    /\ saeb_pc = "start"
    /\ saeb_cols = <<>>
    /\ df = <<>>
    /\ saved = <<>>
    /\ saeb_outcome = "running"
    /\ grouped = <<>>
    /\ saeb_log = <<>>

\* No SAEB script runs.
SaebIdle ==
    /\ script = "none"
    /\ saeb_header = <<>>
    /\ ts_escola = <<>>
    /\ year = 0
    /\ filter_network = "ALL"
    /\ saeb_pc = "idle"
    /\ saeb_cols = <<>>
    /\ df = <<>>
    /\ saved = <<>>
    /\ saeb_outcome = "idle"
    /\ grouped = <<>>
    /\ saeb_log = <<>>

saebInputs == <<script, saeb_header, ts_escola, year, filter_network>>

\* An exception reaches the except clause: it is printed and the run ends.
SaebRaise == saeb_pc' = "done" /\ saeb_outcome' = "exception"

\* saeb2023, load_data: read_csv with usecols raises when a column is not in
\* the file; the error is printed and None is returned.
Saeb2023Load ==
    /\ script = "saeb2023" /\ saeb_pc = "start"
    /\ IF Saeb2023Cols \subseteq SeqToSet(saeb_header)
       THEN /\ df' = ReadCsv(ts_escola, Saeb2023Cols)
            /\ saeb_pc' = "loaded"
            /\ UNCHANGED saeb_outcome
       ELSE /\ saeb_pc' = "done"
            /\ saeb_outcome' = "load_failed"
            /\ UNCHANGED df
    /\ UNCHANGED <<saebInputs, saeb_cols, saved>>
    /\ UNCHANGED <<grouped, saeb_log>>
    /\ UNCHANGED notSaeb

\* saeb2023, process_data and the two saves of the same table.
Saeb2023Process ==
    /\ script = "saeb2023" /\ saeb_pc = "loaded"
    /\ \E t \in SortedByGeneral(process_data(df)) : saved' = <<t>>
    /\ saeb_pc' = "done"
    /\ saeb_outcome' = "saved"
    /\ saeb_log' = Saeb2023Warning(df)
    /\ UNCHANGED <<saebInputs, saeb_cols, df, grouped>>
    /\ UNCHANGED notSaeb

\* cog03: the header is read and col_adm and col_uf are looked up.
Cog03Open ==
    /\ script = "cog03" /\ saeb_pc = "start"
    /\ saeb_cols' = [col_adm |-> Cog03Adm(saeb_header), col_uf |-> Cog03Uf(saeb_header)]
    /\ saeb_pc' = "9EF"
    /\ UNCHANGED <<saebInputs, df, saved, saeb_outcome>>
    /\ UNCHANGED <<grouped, saeb_log>>
    /\ UNCHANGED notSaeb

\* cog03: one pass of the loop over ['9EF', '3EM']. A grade without both score
\* columns, or without a row that has both scores, is skipped; df[col_uf]
\* raises when no UF column was found; else the table of the grade is written.
\* agg_rules is a dict keyed by c_lp, c_mt, the quantity column and
\* 'Is_Public': when c_lp and c_mt are one column the grouped frame has four
\* columns and the assignment of the five names raises ValueError.
Cog03Grade ==
    /\ script = "cog03" /\ saeb_pc \in {"9EF", "3EM"}
    /\ LET next == IF saeb_pc = "9EF" THEN "3EM" ELSE "done"
           ends == IF next = "done" THEN "finished" ELSE saeb_outcome
       IN  \E g \in {find_grade_columns(saeb_header, saeb_pc)} :
           IF g.lp = None \/ g.mt = None
           THEN saeb_pc' = next /\ saeb_outcome' = ends /\ UNCHANGED <<saved, grouped>>
           ELSE IF saeb_cols.col_uf = None
           THEN SaebRaise /\ UNCHANGED <<saved, grouped>>
           ELSE \E sub \in {Cog03Sub(ts_escola, g, saeb_cols.col_adm, saeb_cols.col_uf,
                                      filter_network)} :
                IF sub # <<>> /\ g.lp = g.mt
                THEN SaebRaise /\ UNCHANGED <<saved, grouped>>
                ELSE /\ saeb_pc' = next
                     /\ saeb_outcome' = ends
                     /\ IF sub = <<>> THEN UNCHANGED <<saved, grouped>>
                        ELSE /\ \E t \in SortedByGeneral(Cog03Table(sub, saeb_pc, year)) :
                                   saved' = Append(saved, t)
                             /\ grouped' = Append(grouped,
                                    [Grade |-> saeb_pc, sub |-> sub,
                                     Public_Share |-> Cog03PublicShare(sub)])
    /\ UNCHANGED <<saebInputs, saeb_cols, df>>
    /\ UNCHANGED saeb_log
    /\ UNCHANGED notSaeb

\* saebhist: the with block. No grade found ends the run; read_csv raises
\* when a column of use_cols is not in the file.
SaebHistOpen ==
    /\ script = "saebhist" /\ saeb_pc = "start"
    /\ LET col_adm == SaebHistAdm(saeb_header)
           col_uf == SaebHistUf(saeb_header)
           items == grades_to_process(saeb_header, year)
           cols == use_cols(col_uf, col_adm, items)
       IN  /\ saeb_cols' = [col_adm |-> col_adm, col_uf |-> col_uf, grades |-> items]
           /\ IF items = <<>>
              THEN saeb_pc' = "done" /\ saeb_outcome' = "skip" /\ UNCHANGED df
              ELSE IF ~(cols \subseteq SeqToSet(saeb_header))
              THEN SaebRaise /\ UNCHANGED df
              ELSE /\ df' = ReadCsv(ts_escola, cols)
                   /\ saeb_pc' = "loaded"
                   /\ UNCHANGED saeb_outcome
    /\ UNCHANGED <<saebInputs, saved>>
    /\ UNCHANGED <<grouped, saeb_log>>
    /\ UNCHANGED notSaeb

\* saebhist: filtering, standardization, the loop over the grades and the
\* save of the one table when a grade gave rows.
SaebHistProcess ==
    /\ script = "saebhist" /\ saeb_pc = "loaded"
    /\ IF saeb_cols.col_uf = None
       THEN SaebRaise /\ UNCHANGED saved
       ELSE LET std == SaebHistStd(df, saeb_cols.col_uf, saeb_cols.col_adm,
                                   filter_network)
                items == SaebHistKept(std, saeb_cols.grades)
                all == UNION {SaebHistGrouped(std, items[i], year, filter_network) :
                                 i \in DOMAIN items}
            IN  /\ saeb_pc' = "done"
                /\ IF items = <<>>
                   THEN saeb_outcome' = "finished" /\ UNCHANGED saved
                   ELSE /\ saeb_outcome' = "saved"
                        /\ \E t \in Orderings(all, {p \in all \X all :
                                  GradeThenGeneralBefore(p[1], p[2])}) : saved' = <<t>>
    /\ UNCHANGED <<saebInputs, saeb_cols, df>>
    /\ UNCHANGED <<grouped, saeb_log>>
    /\ UNCHANGED notSaeb

\* cog01: the with block. No grade found ends the run with a warning; the
\* columns read are all names of the header.
Cog01Open ==
    /\ script = "cog01" /\ saeb_pc = "start"
    /\ LET col_net == Cog01Net(saeb_header)
           col_uf == Cog01Uf(saeb_header)
       IN  \E items \in {grades_found(saeb_header, year)} :
           /\ saeb_cols' = [col_adm |-> col_net, col_uf |-> col_uf, grades |-> items]
           /\ IF items = <<>>
              THEN saeb_pc' = "done" /\ saeb_outcome' = "skip" /\ UNCHANGED df
              ELSE /\ df' = ReadCsv(ts_escola, use_cols(col_uf, col_net, items))
                   /\ saeb_pc' = "loaded"
                   /\ UNCHANGED saeb_outcome
    /\ UNCHANGED <<saebInputs, saved>>
    /\ UNCHANGED <<grouped, saeb_log>>
    /\ UNCHANGED notSaeb

\* cog01: df['UF'] is the sigla of a numeric UF column and the cell itself of
\* any other; df[col_uf] raises when no UF column was found.
Cog01Transform ==
    /\ script = "cog01" /\ saeb_pc = "loaded"
    /\ IF saeb_cols.col_uf = None
       THEN SaebRaise /\ UNCHANGED df
       ELSE /\ df' = SaebHistStd(df, saeb_cols.col_uf, saeb_cols.col_adm, "ALL")
            /\ saeb_pc' = "grade1"
            /\ UNCHANGED saeb_outcome
    /\ UNCHANGED <<saebInputs, saeb_cols, saved>>
    /\ UNCHANGED <<grouped, saeb_log>>
    /\ UNCHANGED notSaeb

\* cog01: one pass of the loop over grades_found. A grade without a row that
\* has both scores is skipped; else its table is written.
Cog01Grade ==
    /\ script = "cog01" /\ saeb_pc \in {"grade1", "grade2"}
    /\ LET k == IF saeb_pc = "grade1" THEN 1 ELSE 2
           last == k = Len(saeb_cols.grades)
       IN  \E sub \in {DropNa(df, saeb_cols.grades[k].lp, saeb_cols.grades[k].mt)} :
           /\ saeb_pc' = IF last THEN "done" ELSE "grade2"
           /\ saeb_outcome' = IF last THEN "finished" ELSE saeb_outcome
           /\ IF sub = <<>> THEN UNCHANGED saved
              ELSE \E t \in Orderings(Cog01Table(sub, saeb_cols.grades[k], year),
                                {p \in Cog01Table(sub, saeb_cols.grades[k], year)
                                        \X Cog01Table(sub, saeb_cols.grades[k], year) :
                                    RatLess(p[2].Mean_General, p[1].Mean_General)}) :
                       saved' = Append(saved, t)
    /\ UNCHANGED <<saebInputs, saeb_cols, df>>
    /\ UNCHANGED <<grouped, saeb_log>>
    /\ UNCHANGED notSaeb

SaebNext ==
    \/ Saeb2023Load \/ Saeb2023Process
    \/ Cog03Open \/ Cog03Grade
    \/ SaebHistOpen \/ SaebHistProcess
    \/ Cog01Open \/ Cog01Transform \/ Cog01Grade

-----------------------------------------------------------------------------
(* PISA 2015: the text-name geocoder (02_process_pisa_2015_uf_region.py and *)
(* legacy/99_01_process_pisa_2022_region.py).                               *)

\* What a lookup returns when it finds nothing (None, dropped by dropna).
NoCode == NA

\* NAME_TO_IBGE, in the order the dict is written.
NAME_TO_IBGE ==
    << <<"RONDONIA", 11>>, <<"RONDÔNIA", 11>>, <<"ACRE", 12>>,
       <<"AMAZONAS", 13>>, <<"RORAIMA", 14>>, <<"PARA", 15>>, <<"PARÁ", 15>>,
       <<"AMAPA", 16>>, <<"AMAPÁ", 16>>, <<"TOCANTINS", 17>>,
       <<"MARANHAO", 21>>, <<"MARANHÃO", 21>>, <<"PIAUI", 22>>,
       <<"PIAUÍ", 22>>, <<"CEARA", 23>>, <<"CEARÁ", 23>>,
       <<"RIO GRANDE DO NORTE", 24>>, <<"PARAIBA", 25>>, <<"PARAÍBA", 25>>,
       <<"PERNAMBUCO", 26>>, <<"ALAGOAS", 27>>, <<"SERGIPE", 28>>,
       <<"BAHIA", 29>>, <<"MINAS GERAIS", 31>>, <<"ESPIRITO SANTO", 32>>,
       <<"ESPÍRITO SANTO", 32>>, <<"RIO DE JANEIRO", 33>>, <<"SAO PAULO", 35>>,
       <<"SÃO PAULO", 35>>, <<"PARANA", 41>>, <<"PARANÁ", 41>>,
       <<"SANTA CATARINA", 42>>, <<"RIO GRANDE DO SUL", 43>>,
       <<"MATO GROSSO DO SUL", 50>>, <<"MATO GROSSO", 51>>, <<"GOIAS", 52>>,
       <<"GOIÁS", 52>>, <<"DISTRITO FEDERAL", 53>> >>

\* NAME_TO_IBGE.keys() as they are, without the sort.
unsorted_names == [i \in DOMAIN NAME_TO_IBGE |-> NAME_TO_IBGE[i][1]]

\* sorted(NAME_TO_IBGE.keys(), key=len, reverse=True): longest first; the
\* sort is stable, so names of one length keep the order of the dict.
sorted_names ==
    LET names == [i \in DOMAIN NAME_TO_IBGE |-> NAME_TO_IBGE[i][1]]
        rank(i) == 1 + Cardinality({j \in DOMAIN names :
                          \/ Len(names[j]) > Len(names[i])
                          \/ Len(names[j]) = Len(names[i]) /\ j < i})
    IN  [k \in DOMAIN names |-> names[CHOOSE i \in DOMAIN names : rank(i) = k]]

\* NAME_TO_IBGE[name]
CodeOf(name) ==
    NAME_TO_IBGE[CHOOSE i \in DOMAIN NAME_TO_IBGE : NAME_TO_IBGE[i][1] = name][2]

\* next((NAME_TO_IBGE[n] for n in sorted_names if n in text_upper), None)
FirstNameIn(text_upper) ==
    LET names == sorted_names
        hit == FirstWhere(names, {n \in SeqToSet(names) : Contains(text_upper, n)})
    IN  IF hit = None THEN NoCode ELSE CodeOf(hit)

\* A label is a string or a missing value (a float NaN): val is its str().
Str(text) == [str |-> TRUE, val |-> text]
NaNLabel == [str |-> FALSE, val |-> "nan"]

\* resolve_ibge_from_text(text_label)
resolve_ibge_from_text(label) ==
    IF ~label.str THEN NoCode ELSE FirstNameIn(Upper(label.val))

\* The lambda of run_2015 in the legacy script: str(x).upper() for any x.
LegacyResolve(label) == FirstNameIn(Upper(label.val))

\* Stratum labels: a state name alone, inside a longer description, or in
\* lower case; labels naming no state; and a missing value.
Labels ==
    {Str(pre \o unsorted_names[i] \o suf) :
        pre \in {"", "BRA - "}, suf \in {"", " - CAPITAL"}, i \in DOMAIN unsorted_names}
    \cup {Str(t) : t \in {"são paulo - capital", "mato grosso do sul - interior",
                         "paraíba", "Rondônia urbana", "PARAIBA E PARANA",
                         "ACRE / AMAPA", "PAR", "BRASIL", "", "NORTE", "GROSSO"}}
    \cup {NaNLabel}

GeoScripts == {"pisa2015", "legacy9901"}

\* A label is about to be geocoded by one of the two scripts.
GeoInit ==
    /\ text_label \in Labels
    /\ geo_pc \in GeoScripts
    /\ ibge = NoCode

\* No geocoder call.
GeoIdle ==
    /\ text_label = NaNLabel
    /\ geo_pc = "idle"
    /\ ibge = NoCode

Resolve2015 ==
    /\ geo_pc = "pisa2015"
    /\ ibge' = resolve_ibge_from_text(text_label)
    /\ geo_pc' = "done"
    /\ UNCHANGED text_label
    /\ UNCHANGED notGeo

ResolveLegacy ==
    /\ geo_pc = "legacy9901"
    /\ ibge' = LegacyResolve(text_label)
    /\ geo_pc' = "done"
    /\ UNCHANGED text_label
    /\ UNCHANGED notGeo

GeoNext == Resolve2015 \/ ResolveLegacy

-----------------------------------------------------------------------------
(* SAEB and the geocoder: what the properties are stated with. *)

\* Every row written so far, of every table.
Emitted == UNION {SeqToSet(saved[i]) : i \in DOMAIN saved}

LanguageOf(row) ==
    IF "Language_Mean" \in DOMAIN row THEN row.Language_Mean ELSE row.MEDIA_EM_LP

MathOf(row) == IF "Math_Mean" \in DOMAIN row THEN row.Math_Mean ELSE row.MEDIA_EM_MT

\* The quotient q is the whole number v.
IsValue(q, v) == q.den # 0 /\ q.num = v * q.den

\* The file of scenario A.
ScenarioA ==
    /\ saeb_header = <<"ID_UF", "MEDIA_EM_LP", "MEDIA_EM_MT">>
    /\ ts_escola = <<[ID_UF |-> "35", MEDIA_EM_LP |-> 500, MEDIA_EM_MT |-> 520],
                     [ID_UF |-> "35", MEDIA_EM_LP |-> 0, MEDIA_EM_MT |-> 480]>>

\* C3: scenario A on the SAEB path. From the header [ID_UF, MEDIA_EM_LP,
\* MEDIA_EM_MT] and the records {35, 500, 520} and {35, 0, 480}, every row
\* written for SP has Language mean 500, Math mean 500 and composite 500.
C3_ScenarioA ==
    (ScenarioA /\ script # "cog01") =>
        \A row \in Emitted :
            row.UF = "SP" =>
                /\ IsValue(LanguageOf(row), 500)
                /\ IsValue(MathOf(row), 500)
                /\ IsValue(row.SAEB_General, 500)

Siglas ==
    {"RO", "AC", "AM", "RR", "PA", "AP", "TO", "MA", "PI", "CE", "RN", "PB", "PE",
     "AL", "SE", "BA", "MG", "ES", "RJ", "SP", "PR", "SC", "RS", "MS", "MT", "GO",
     "DF"}

RegionLabels ==
    {"North", "Northeast", "Southeast", "South", "Center-West",
     "Norte", "Nordeste", "Sudeste", "Sul", "Centro-Oeste"}

\* C9: geo round-trip. The geographic unit of every emitted row is one of
\* the 27 units of the unit-to-region table, and a row that carries a region
\* carries one of the five regions, never a missing one or 'Unknown'; units
\* taken as they are from a non-numeric UF column included.
C9_GeoRoundTrip ==
    script # "cog01" =>
        \A row \in Emitted :
            /\ row.UF \in Siglas
            /\ "Region" \in DOMAIN row => row.Region \in RegionLabels

\* The dictionary names that are substrings of the upper-cased label.
Matching(label) ==
    {i \in DOMAIN NAME_TO_IBGE : Contains(Upper(label.val), NAME_TO_IBGE[i][1])}

\* C10: the text-name strategy is longest-match-first. The code returned for
\* a label is that of a longest dictionary name that is a substring of the
\* upper-cased label, and nothing is returned iff no name is a substring:
\* 'SÃO PAULO - CAPITAL' gives 35, 'MATO GROSSO DO SUL' gives 50 and not 51,
\* and 'PARAIBA' and 'PARANA' never give 15.
C10_LongestMatchFirst ==
    geo_pc = "done" =>
        /\ ibge = NoCode <=> Matching(text_label) = {}
        /\ Matching(text_label) # {} =>
              \E i \in Matching(text_label) :
                  /\ ibge = NAME_TO_IBGE[i][2]
                  /\ \A j \in Matching(text_label) :
                        Len(NAME_TO_IBGE[j][1]) <= Len(NAME_TO_IBGE[i][1])
        /\ text_label = Str("SÃO PAULO - CAPITAL") => ibge = 35
        /\ text_label = Str("MATO GROSSO DO SUL") => ibge = 50
        /\ text_label \in {Str("PARAIBA"), Str("PARANA")} => ibge # 15

\* A label in which a shorter name of another state is also a substring was
\* resolved to the state of the longer name.
C10_Witness ==
    /\ geo_pc = "done"
    /\ text_label = Str("MATO GROSSO DO SUL - CAPITAL")
    /\ Cardinality(Matching(text_label)) = 2
    /\ ibge = 50

-----------------------------------------------------------------------------
(* PISA by macro-region: run_2018 and run_2022 of                            *)
(* legacy/01_process_pisa_historical.py, run_2018 of                         *)
(* legacy/99_01_process_pisa_2022_region.py and 02_process_pisa_2022_region. *)

\* Student rows per file.
MaxStudents == 2

PisaScripts == {"hist2018", "legacy2018", "hist2022", "region2022", "legacy2022"}

\* The two runs of legacy/99_01: they print nothing about the rows.
PisaLegacy == {"legacy2018", "legacy2022"}

Pisa2018 == {"hist2018", "legacy2018"}

\* cols = ['CNT', 'STRATUM', 'PV1MATH', 'PV1READ', 'PV1SCIE']
Student(cnt, stratum, math, read, scie) ==
    [CNT |-> cnt, STRATUM |-> stratum, PV1MATH |-> math, PV1READ |-> read,
     PV1SCIE |-> scie]

\* Rows of the 2018 file, read with convert_categoricals=False: stratum
\* codes of the five regions, in lower case, padded, with a segment outside
\* the table, too short, without the country prefix, and a foreign student.
Students2018 ==
    { Student("BRA", "BRA0213", 400, 420, 410),
      Student("BRA", "BRA0101", 380, 390, 400),
      Student("BRA", "bra0305", 450, 450, 450),
      Student("BRA", " BRA0401", 470, 460, 480),
      Student("BRA", "BRA0502", 440, 430, 420),
      Student("BRA", "BRA9901", 500, 500, 500),
      Student("BRA", "BRA", 300, 300, 300),
      Student("BRA", "XXX0213", 600, 600, 600),
      Student("ARG", "ARG0101", 410, 410, 410) }

\* Rows of the 2022 file, read with the value labels as text.
Students2022 ==
    { Student("Brazil", "BRA - Nordeste", 400, 420, 410),
      Student("Brazil", "Brazil: NORTE", 380, 390, 400),
      Student("Brazil", "Sudeste urbano", 450, 450, 450),
      Student("Brazil", "Regiao Sul", 470, 460, 480),
      Student("Brazil", "CENTRO-OESTE", 440, 430, 420),
      Student("Brazil", "Undisclosed", 500, 500, 500),
      Student("Brazil", "Norte de Minas - Sudeste", 430, 430, 430),
      Student("Brazil", "Centro urbano", 460, 460, 460),
      Student("Argentina", "ARG - Norte", 410, 410, 410) }

PisaFiles(S) == UNION {[1..n -> S] : n \in 0..MaxStudents}

\* str.strip()
RECURSIVE Strip(_)
Strip(s) ==
    IF s = "" THEN s
    ELSE IF SubSeq(s, 1, 1) = " " THEN Strip(SubSeq(s, 2, Len(s)))
    ELSE IF SubSeq(s, Len(s), Len(s)) = " " THEN Strip(SubSeq(s, 1, Len(s) - 1))
    ELSE s

\* s.startswith(prefix)
StartsWith(s, prefix) ==
    Len(s) >= Len(prefix) /\ SubSeq(s, 1, Len(prefix)) = prefix

\* s[3:5]: the characters at offsets 3 and 4 that the string has.
Slice3to5(s) ==
    IF Len(s) <= 3 THEN "" ELSE SubSeq(s, 4, IF Len(s) < 5 THEN Len(s) ELSE 5)

\* mapping = {'01':'North', '02':'Northeast', ...}.get(code, 'UNKNOWN')
RegionOfCode(code) ==
    CASE code = "01" -> "North"
      [] code = "02" -> "Northeast"
      [] code = "03" -> "Southeast"
      [] code = "04" -> "South"
      [] code = "05" -> "Center-West"
      [] OTHER -> "UNKNOWN"

\* get_region_code_2018(stratum) of legacy/01_process_pisa_historical.py
get_region_code_2018(stratum) ==
    LET s == Strip(Upper(stratum))
    IN  IF StartsWith(s, "BRA") THEN RegionOfCode(Slice3to5(s)) ELSE "UNKNOWN"

\* lambda x: mapping.get(str(x).upper()[3:5], 'UNKNOWN') of legacy/99_01
LegacyRegion2018(stratum) == RegionOfCode(Slice3to5(Upper(stratum)))

\* get_region / get_region_2022: text matching, composite names first.
get_region_2022(stratum) ==
    LET s == Upper(stratum)
    IN  IF Contains(s, "CENTRO-OESTE") \/ Contains(s, "CENTRO OESTE")
        THEN "Center-West"
        ELSE IF Contains(s, "NORDESTE") THEN "Northeast"
        ELSE IF Contains(s, "SUDESTE") THEN "Southeast"
        ELSE IF Contains(s, "NORTE") THEN "North"
        ELSE IF Contains(s, "SUL") THEN "South"
        ELSE "UNKNOWN"

\* get_reg of run_2022 of legacy/99_01: one conditional chain, single words
\* first, 'CENTRO' alone for the Center-West.
get_reg(stratum) ==
    LET s == Upper(stratum)
    IN  IF Contains(s, "NORTE") THEN "North"
        ELSE IF Contains(s, "NORDESTE") THEN "Northeast"
        ELSE IF Contains(s, "SUDESTE") THEN "Southeast"
        ELSE IF Contains(s, "SUL") THEN "South"
        ELSE IF Contains(s, "CENTRO") THEN "Center-West"
        ELSE "UNKNOWN"

\* The region decoder of a script.
PisaRegionOf(scr, stratum) ==
    CASE scr = "hist2018" -> get_region_code_2018(stratum)
      [] scr = "legacy2018" -> LegacyRegion2018(stratum)
      [] scr = "legacy2022" -> get_reg(stratum)
      [] OTHER -> get_region_2022(stratum)

\* df[df['CNT'].astype(str).str.contains(...)]: 'BRA|76' as written in
\* legacy/99_01, case-insensitive 'BRA|Brazil|76' or 'Brazil|BRA' elsewhere.
IsBrazil(scr, cnt) ==
    IF scr = "legacy2018" THEN Contains(cnt, "BRA") \/ Contains(cnt, "76")
    ELSE IF scr = "hist2018" THEN Contains(Upper(cnt), "BRA") \/ Contains(cnt, "76")
    ELSE IF scr = "legacy2022" THEN Contains(cnt, "Brazil")
    ELSE Contains(Upper(cnt), "BRA")

BrazilRows(scr, d) == SelectSeq(d, LAMBDA r : IsBrazil(scr, r.CNT))

\* The summary row of one region: value_counts, groupby mean, the global
\* mean of the three means, everything rounded to two decimals.
PisaRegionRow(reg, grp) ==
    LET n == Len(grp)
        m == SumSeq([i \in DOMAIN grp |-> grp[i].PV1MATH])
        r == SumSeq([i \in DOMAIN grp |-> grp[i].PV1READ])
        s == SumSeq([i \in DOMAIN grp |-> grp[i].PV1SCIE])
    IN  [Region |-> reg, Student_Count |-> n,
         Math_Mean |-> Round2(Rat(m, n)), Read_Mean |-> Round2(Rat(r, n)),
         Science_Mean |-> Round2(Rat(s, n)),
         Cognitive_Global_Mean |-> Round2(Rat(m + r + s, 3 * n))]

\* df = df[df['Region'] != 'UNKNOWN'], then one row per region.
PisaSummary(br, region) ==
    LET idx == SelectSeq([i \in DOMAIN br |-> i], LAMBDA i : region[i] # "UNKNOWN")
        regs == {region[idx[k]] : k \in DOMAIN idx}
        grp(reg) == LET sel == SelectSeq(idx, LAMBDA i : region[i] = reg)
                    IN  [k \in DOMAIN sel |-> br[sel[k]]]
    IN  {PisaRegionRow(reg, grp(reg)) : reg \in regs}

\* sort_values('Cognitive_Global_Mean', ascending=False)
PisaSorted(S) ==
    Orderings(S, {p \in S \X S :
                     RatLess(p[2].Cognitive_Global_Mean, p[1].Cognitive_Global_Mean)})

\* What the script prints about the rows it could not place.
PisaValidation(scr, br, region) ==
    LET unknowns == SelectSeq([i \in DOMAIN br |-> i], LAMBDA i : region[i] = "UNKNOWN")
        valid == Len(br) - Len(unknowns)
    IN  CASE scr = "hist2018" ->
               <<[msg |-> "Valid Regional Rows", n |-> valid]>>
               \o (IF valid = 0
                   THEN <<[msg |-> "Region mapping failed",
                           sample |-> [i \in 1..(IF Len(br) < 5 THEN Len(br) ELSE 5)
                                          |-> br[i].STRATUM]]>>
                   ELSE <<>>)
          [] scr = "region2022" ->
               IF Len(unknowns) > 0
               THEN <<[msg |-> "rows unmapped", n |-> Len(unknowns),
                       sample |-> <<br[unknowns[1]].STRATUM>>]>>
               ELSE <<>>
          [] OTHER -> <<>>

\* A regional PISA script is about to read its file.
PisaInit ==
    /\ pisa_script \in PisaScripts
    /\ pisa_df \in PisaFiles(IF pisa_script \in Pisa2018 THEN Students2018
                             ELSE Students2022)
    /\ pisa_pc = "start"
    /\ pisa_region = <<>>
    /\ pisa_log = <<>>
    /\ pisa_out = <<>>

\* No regional PISA script runs.
PisaIdle ==
    /\ pisa_script = "none"
    /\ pisa_df = <<>>
    /\ pisa_pc = "idle"
    /\ pisa_region = <<>>
    /\ pisa_log = <<>>
    /\ pisa_out = <<>>

\* Read, keep the Brazilian rows, decode the regions, validate.
PisaDecode ==
    /\ pisa_pc = "start"
    /\ LET br == BrazilRows(pisa_script, pisa_df)
           region == [i \in DOMAIN br |-> PisaRegionOf(pisa_script, br[i].STRATUM)]
           found == IF pisa_script \in PisaLegacy THEN <<>>
                    ELSE <<[msg |-> "Brazil rows found", n |-> Len(br)]>>
       IN  IF pisa_script \notin PisaLegacy /\ br = <<>>
           THEN /\ pisa_log' = found \o <<[msg |-> "No Brazil rows found"]>>
                /\ pisa_pc' = "done"
                /\ UNCHANGED pisa_region
           ELSE /\ pisa_region' = region
                /\ pisa_log' = found \o PisaValidation(pisa_script, br, region)
                /\ pisa_pc' = IF /\ pisa_script = "hist2018"
                                 /\ \A i \in DOMAIN region : region[i] = "UNKNOWN"
                              THEN "done" ELSE "decoded"
    /\ UNCHANGED <<pisa_script, pisa_df, pisa_out>>
    /\ UNCHANGED notPisa

\* Drop the unknown rows, aggregate by region, sort and write; the 2022
\* script of the main directory writes nothing when the table is empty.
PisaSave ==
    /\ pisa_pc = "decoded"
    /\ LET table == PisaSummary(BrazilRows(pisa_script, pisa_df), pisa_region)
       IN  IF pisa_script = "region2022" /\ table = {}
           THEN UNCHANGED pisa_out
           ELSE \E t \in PisaSorted(table) : pisa_out' = <<t>>
    /\ pisa_pc' = "done"
    /\ UNCHANGED <<pisa_script, pisa_df, pisa_region, pisa_log>>
    /\ UNCHANGED notPisa

PisaNext == PisaDecode \/ PisaSave

-----------------------------------------------------------------------------
(* PISA by macro-region: what the properties are stated with. *)

\* The direct table of the composite-stratum-prefix strategy.
PrefixTable ==
    [c \in {"01", "02", "03", "04", "05"} |->
        CASE c = "01" -> "North" [] c = "02" -> "Northeast"
          [] c = "03" -> "Southeast" [] c = "04" -> "South"
          [] c = "05" -> "Center-West"]

\* The code is 'BRA' followed by a two-character segment of the table.
IsPrefixCode(code) ==
    StartsWith(code, "BRA") /\ Slice3to5(code) \in DOMAIN PrefixTable

\* The rows written, of every table.
PisaEmitted == UNION {SeqToSet(pisa_out[i]) : i \in DOMAIN pisa_out}

\* The Brazilian rows that were given region reg.
PisaPlaced(reg) ==
    {i \in DOMAIN pisa_region : pisa_region[i] = reg}

\* C11: the composite-stratum-prefix strategy of the 2018 pipelines. A code
\* 'BRA' + digits gets the region the table gives for its two characters at
\* offset 3 ('BRA0213' is Northeast); a code that, even trimmed and in upper
\* case, lacks the country prefix or has a segment outside the table is
\* unresolved; and unresolved rows are in no region's count.
C11_PrefixStrategy ==
    (pisa_script \in Pisa2018 /\ pisa_pc = "done" /\ pisa_region # <<>>) =>
        LET br == BrazilRows(pisa_script, pisa_df)
        IN  /\ \A i \in DOMAIN br :
                 LET code == br[i].STRATUM
                 IN  /\ IsPrefixCode(code) =>
                            pisa_region[i] = PrefixTable[Slice3to5(code)]
                     /\ ~IsPrefixCode(Strip(Upper(code))) =>
                            pisa_region[i] = "UNKNOWN"
                     /\ code = "BRA0213" => pisa_region[i] = "Northeast"
            /\ \A row \in PisaEmitted :
                 /\ row.Region \in Range(PrefixTable)
                 /\ row.Student_Count = Cardinality(PisaPlaced(row.Region))
            /\ \A reg \in Range(PrefixTable) :
                 PisaPlaced(reg) # {} /\ pisa_out # <<>> =>
                     \E row \in PisaEmitted : row.Region = reg

-----------------------------------------------------------------------------
(* Cross-source merges: analysis_triangulation_waves.py,                     *)
(* visualize_waves_scatter.py and 05_correlate_pearson_spearman.py.          *)

\* Rows per state-level table.
MaxStates == 3

WaveScripts == {"triangulation", "scatter", "correlate"}

Waves == {"2015", "2018", "2022"}

\* UF_TO_REGION of the two wave scripts: the 27 pairs of UF_REGION_MAP.
UF_TO_REGION(uf) == UF_REGION_MAP(uf)

\* A file that is not there, and a file with its rows; grade says whether
\* the table has a Grade column.
NoFile == [exists |-> FALSE, grade |-> FALSE, rows |-> {}]

File(tbl, grade) == [exists |-> TRUE, grade |-> grade, rows |-> tbl]

\* A row of a summary table: its key and its score (a missing score is 0/0).
Summary(key, score) ==
    [KEY |-> key, Score |-> IF score = NA THEN Rat(0, 0) ELSE Rat(score, 1)]

\* Rows of the state-level ENEM and SAEB tables: three states of one
\* region, a state of another one, a key that is no UF, a missing score.
StateRows ==
    { Summary("SP", 500), Summary("RJ", 480), Summary("MG", 460),
      Summary("RS", 470), Summary("XX", 400), Summary("BA", NA) }

StateTables == {T \in SUBSET StateRows : Cardinality(T) <= MaxStates}

\* The PISA summary of a wave: by state in 2015, by region afterwards.
PisaTable(w) ==
    IF w = "2015"
    THEN {Summary("SP", 400), Summary("RJ", 390), Summary("RS", 410)}
    ELSE {Summary("Southeast", 400), Summary("South", 410), Summary("Northeast", 380)}

\* FILES_MAP[wave]['PISA']['col_join']
PisaColJoin(w) == IF w = "2015" THEN "UF" ELSE "Region"

\* Every wave joined at the level of its files, nothing raised to regions.
never_regional(w) == FALSE

\* is_regional = 'Region' in sources['PISA']['col_join'] and wave != '2015'
is_regional(w) == Contains(PisaColJoin(w), "Region") /\ w # "2015"

\* One row with a key column and a score column.
KeyScore(on, key, col, score) == (on :> key) @@ (col :> score)

\* normalize_cols: the key becomes KEY, the score {prefix}_Score, and the
\* Grade column, when there is one, {prefix}_Grade.
normalize_cols(file, prefix) ==
    {IF file.grade
     THEN KeyScore("KEY", r.KEY, prefix \o "_Score", r.Score)
          @@ ((prefix \o "_Grade") :> "3EM")
     ELSE KeyScore("KEY", r.KEY, prefix \o "_Score", r.Score) : r \in file.rows}

\* The scores of column col of a set of rows, added up.
RECURSIVE ScoreTotal(_, _)
ScoreTotal(S, col) ==
    IF S = {} THEN 0
    ELSE LET r == CHOOSE x \in S : TRUE
         IN  r[col].num + ScoreTotal(S \ {r}, col)

\* Series.sum() in the place of Series.mean().
SumScore(tbl, col) ==
    LET ok == {r \in tbl : ~IsNaN(r[col])}
    IN  Rat(ScoreTotal(ok, col), IF ok = {} THEN 0 ELSE 1)

\* Series.mean() of column col over a set of rows, missing scores skipped.
MeanScore(tbl, col) ==
    LET ok == {r \in tbl : ~IsNaN(r[col])}
    IN  Rat(ScoreTotal(ok, col), Cardinality(ok))

\* df[key].map(UF_TO_REGION) then groupby(...)[[col]].mean().reset_index():
\* one row per region that some key maps to; rows whose key has no region
\* are in no group. The result is keyed by column on.
GroupByRegion(tbl, key, col, on) ==
    LET regs == {UF_TO_REGION(r[key]) : r \in tbl} \ {"NaN"}
    IN  {KeyScore(on, g, col, MeanScore({r \in tbl : UF_TO_REGION(r[key]) = g}, col)) :
            g \in regs}

\* aggregate_to_region(df_state): the Score column of the table, by region.
aggregate_to_region(df_state, prefix) ==
    GroupByRegion(df_state, "KEY", prefix \o "_Score", "KEY")

\* pd.merge(left, right, on=on, how='inner')
merge(left, right, on) ==
    {p[1] @@ p[2] : p \in {q \in left \X right : q[1][on] = q[2][on]}}

\* The rows of a file with the score column renamed to col.
Renamed(file, col) == {KeyScore("KEY", r.KEY, col, r.Score) : r \in file.rows}

\* The key columns of the two sides of a merge.
Sides(left, right, on) ==
    [left |-> {l[on] : l \in left}, right |-> {r[on] : r \in right}]

\* The cross-source script is about to start on a wave.
WavesInit ==
    /\ w_script \in WaveScripts
    /\ wave \in IF w_script = "correlate" THEN {"2018"} ELSE Waves
    /\ pisa_raw \in {NoFile, File(PisaTable(wave), FALSE)}
    /\ enem_raw \in {NoFile} \cup
           {File(T, g) : T \in StateTables,
                         g \in IF w_script = "triangulation" THEN BOOLEAN ELSE {FALSE}}
    /\ saeb_raw \in {NoFile} \cup
           {File(T, g) : T \in StateTables,
                         g \in IF w_script = "triangulation" THEN BOOLEAN ELSE {FALSE}}
    /\ w_pc = "start"
    /\ df_enem = {}
    /\ df_saeb = {}
    /\ df_final = {}
    /\ merges = <<>>

\* No cross-source script runs.
WavesIdle ==
    /\ w_script = "none"
    /\ wave = "none"
    /\ pisa_raw = NoFile
    /\ enem_raw = NoFile
    /\ saeb_raw = NoFile
    /\ w_pc = "idle"
    /\ df_enem = {}
    /\ df_saeb = {}
    /\ df_final = {}
    /\ merges = <<>>

waveInputs == <<w_script, wave, pisa_raw, enem_raw, saeb_raw>>

\* run_triangulation, step 1: the PISA table is the pivot; a wave without
\* it is skipped.
TriLoadPisa ==
    /\ w_script = "triangulation" /\ w_pc = "start"
    /\ IF ~pisa_raw.exists
       THEN w_pc' = "done" /\ UNCHANGED df_final
       ELSE w_pc' = "enem" /\ df_final' = normalize_cols(pisa_raw, "PISA")
    /\ UNCHANGED <<waveInputs, df_enem, df_saeb, merges>>
    /\ UNCHANGED notWaves

\* The mean of a Grade column of text: the build either raises (the script
\* has no handler) or leaves the column out.
GradeMeanOutcomes(file, w) ==
    IF file.grade /\ is_regional(w) THEN {"raise", "drop"} ELSE {"ok"}

\* The table that goes into the merge: raised to regions in a regional wave.
TriPrepared(file, prefix, w) ==
    IF is_regional(w)
    THEN aggregate_to_region(normalize_cols(file, prefix), prefix)
    ELSE normalize_cols(file, prefix)

\* run_triangulation, step 2: load and merge ENEM.
TriMergeEnem ==
    /\ w_script = "triangulation" /\ w_pc = "enem"
    /\ IF ~enem_raw.exists
       THEN w_pc' = "saeb" /\ UNCHANGED <<df_enem, df_final, merges>>
       ELSE \E o \in GradeMeanOutcomes(enem_raw, wave) :
              IF o = "raise"
              THEN w_pc' = "crashed" /\ UNCHANGED <<df_enem, df_final, merges>>
              ELSE LET t == TriPrepared(enem_raw, "ENEM", wave)
                   IN  /\ df_enem' = t
                       /\ merges' = Append(merges, Sides(df_final, t, "KEY"))
                       /\ df_final' = merge(df_final, t, "KEY")
                       /\ w_pc' = "saeb"
    /\ UNCHANGED <<waveInputs, df_saeb>>
    /\ UNCHANGED notWaves

\* run_triangulation, step 3: load and merge SAEB.
TriMergeSaeb ==
    /\ w_script = "triangulation" /\ w_pc = "saeb"
    /\ IF ~saeb_raw.exists
       THEN w_pc' = "done" /\ UNCHANGED <<df_saeb, df_final, merges>>
       ELSE \E o \in GradeMeanOutcomes(saeb_raw, wave) :
              IF o = "raise"
              THEN w_pc' = "crashed" /\ UNCHANGED <<df_saeb, df_final, merges>>
              ELSE LET t == TriPrepared(saeb_raw, "SAEB", wave)
                   IN  /\ df_saeb' = t
                       /\ merges' = Append(merges, Sides(df_final, t, "KEY"))
                       /\ df_final' = merge(df_final, t, "KEY")
                       /\ w_pc' = "done"
    /\ UNCHANGED <<waveInputs, df_enem>>
    /\ UNCHANGED notWaves

\* granularity = 'State' if year == '2015' else 'Region'
granularity(w) == IF w = "2015" THEN "State" ELSE "Region"

\* get_data_for_wave: a state-level table as it is, or with its keys mapped
\* to regions and averaged by key.
ScatterPrepared(file, col, w) ==
    IF granularity(w) = "Region"
    THEN GroupByRegion(Renamed(file, col), "KEY", col, "KEY")
    ELSE Renamed(file, col)

\* get_data_for_wave, the three loads; without the PISA file read_csv
\* raises and nothing catches it.
ScatterLoad ==
    /\ w_script = "scatter" /\ w_pc = "start"
    /\ IF ~pisa_raw.exists
       THEN w_pc' = "crashed" /\ UNCHANGED <<df_enem, df_saeb, df_final>>
       ELSE /\ df_final' = Renamed(pisa_raw, "PISA_Score")
            /\ df_enem' = IF enem_raw.exists
                          THEN ScatterPrepared(enem_raw, "ENEM_Score", wave) ELSE {}
            /\ df_saeb' = IF saeb_raw.exists
                          THEN ScatterPrepared(saeb_raw, "SAEB_Score", wave) ELSE {}
            /\ w_pc' = "merge"
    /\ UNCHANGED <<waveInputs, merges>>
    /\ UNCHANGED notWaves

\* get_data_for_wave, the final merge of the tables that were found.
ScatterMerge ==
    /\ w_script = "scatter" /\ w_pc = "merge"
    /\ LET m1 == IF enem_raw.exists THEN merge(df_final, df_enem, "KEY") ELSE df_final
           m2 == IF saeb_raw.exists THEN merge(m1, df_saeb, "KEY") ELSE m1
       IN  /\ df_final' = m2
           /\ merges' = merges
                \o (IF enem_raw.exists THEN <<Sides(df_final, df_enem, "KEY")>> ELSE <<>>)
                \o (IF saeb_raw.exists THEN <<Sides(m1, df_saeb, "KEY")>> ELSE <<>>)
    /\ w_pc' = "done"
    /\ UNCHANGED <<waveInputs, df_enem, df_saeb>>
    /\ UNCHANGED notWaves

\* The Region column a state-level file was written with.
WithRegion(tbl) == {r @@ ("Region" :> UF_REGION_MAP(r.KEY)) : r \in tbl}

\* df.groupby('Region')[col].mean().reset_index(): rows without a region
\* are in no group.
CorrByRegion(tbl, col) ==
    LET regs == {r.Region : r \in tbl} \ {"NaN"}
    IN  {KeyScore("Region", g, col, MeanScore({r \in tbl : r.Region = g}, col)) :
            g \in regs}

\* load_data of 05_correlate, up to the merge: None when a file is missing.
\* The one ENEM score column stands for the four mean columns, which the
\* groupby treats alike.
CorrLoad ==
    /\ w_script = "correlate" /\ w_pc = "start"
    /\ IF ~pisa_raw.exists \/ ~saeb_raw.exists \/ ~enem_raw.exists
       THEN w_pc' = "done" /\ UNCHANGED <<df_enem, df_saeb, df_final>>
       ELSE /\ df_final' =
                 {KeyScore("Region", r.KEY, "PISA_2018", r.Score) : r \in pisa_raw.rows}
            /\ df_saeb' = CorrByRegion(WithRegion(Renamed(saeb_raw, "SAEB_2023")),
                                       "SAEB_2023")
            /\ df_enem' = CorrByRegion(WithRegion(Renamed(enem_raw, "ENEM_Triennium")),
                                       "ENEM_Triennium")
            /\ w_pc' = "merge"
    /\ UNCHANGED <<waveInputs, merges>>
    /\ UNCHANGED notWaves

\* load_data of 05_correlate, the three merges on Region.
CorrMerge ==
    /\ w_script = "correlate" /\ w_pc = "merge"
    /\ LET p22 == {KeyScore("Region", r.KEY, "PISA_2022", r.Score) :
                      r \in PisaTable("2022")}
           m1 == merge(df_final, p22, "Region")
           m2 == merge(m1, df_saeb, "Region")
       IN  /\ df_final' = merge(m2, df_enem, "Region")
           /\ merges' = <<Sides(df_final, p22, "Region"), Sides(m1, df_saeb, "Region"),
                          Sides(m2, df_enem, "Region")>>
    /\ w_pc' = "done"
    /\ UNCHANGED <<waveInputs, df_enem, df_saeb>>
    /\ UNCHANGED notWaves

WavesNext ==
    \/ TriLoadPisa \/ TriMergeEnem \/ TriMergeSaeb
    \/ ScatterLoad \/ ScatterMerge
    \/ CorrLoad \/ CorrMerge

-----------------------------------------------------------------------------
(* Granularity reconciliation.                                               *)

\* The key column and the score columns of the script's tables.
WaveKey == IF w_script = "correlate" THEN "Region" ELSE "KEY"

EnemCol == IF w_script = "correlate" THEN "ENEM_Triennium" ELSE "ENEM_Score"

SaebCol == IF w_script = "correlate" THEN "SAEB_2023" ELSE "SAEB_Score"

\* The script compares regions in this run.
WaveRegional ==
    CASE w_script = "triangulation" -> is_regional(wave)
      [] w_script = "scatter" -> granularity(wave) = "Region"
      [] OTHER -> w_script = "correlate"

\* The state-level ENEM, resp. SAEB, table has been raised to regions
\* (05_correlate loads nothing when one of its files is missing).
EnemReconciled ==
    /\ WaveRegional /\ pisa_raw.exists /\ enem_raw.exists
    /\ w_script = "correlate" => saeb_raw.exists
    /\ w_pc \in (IF w_script = "triangulation" THEN {"saeb", "done"}
                 ELSE {"merge", "done"})

SaebReconciled ==
    /\ WaveRegional /\ pisa_raw.exists /\ saeb_raw.exists
    /\ w_script = "correlate" => enem_raw.exists
    /\ w_pc \in (IF w_script = "triangulation" THEN {"done"} ELSE {"merge", "done"})

\* The states of a file that belong to region g and have a score.
StatesOf(file, g) ==
    {r \in file.rows : UF_REGION_MAP(r.KEY) = g /\ ~IsNaN(r.Score)}

\* The deviations of the states' scores from q, added up with weight one
\* each (cleared of q's denominator).
RECURSIVE Deviations(_, _)
Deviations(S, q) ==
    IF S = {} THEN 0
    ELSE LET r == CHOOSE x \in S : TRUE
         IN  (r.Score.num * q.den - q.num * r.Score.den) + Deviations(S \ {r}, q)

\* q is the unweighted arithmetic mean of the scores of S: missing when S
\* is empty, else the value the deviations from which cancel.
IsPlainMean(q, S) ==
    IF S = {} THEN IsNaN(q) ELSE ~IsNaN(q) /\ Deviations(S, q) = 0

\* Every row of the regional table is the plain mean of the file's
\* states of that region, and every region of the file has its row.
RegionalMeans(reg_df, col, file) ==
    /\ \A row \in reg_df : IsPlainMean(row[col], StatesOf(file, row[WaveKey]))
    /\ \A r \in file.rows :
         UF_REGION_MAP(r.KEY) # "NaN" =>
             \E row \in reg_df : row[WaveKey] = UF_REGION_MAP(r.KEY)

\* C12: when a state-level table is compared with a region-level one, each
\* region's value is the unweighted arithmetic mean of the values of its
\* states that are in the table: SP 500, RJ 480 and MG 460 give the
\* Southeast 480.
C12_UnweightedMean ==
    /\ EnemReconciled => RegionalMeans(df_enem, EnemCol, enem_raw)
    /\ SaebReconciled => RegionalMeans(df_saeb, SaebCol, saeb_raw)
    /\ EnemReconciled
         /\ StatesOf(enem_raw, "Southeast")
              = {Summary("SP", 500), Summary("RJ", 480), Summary("MG", 460)}
         => \A row \in df_enem :
              row[WaveKey] = "Southeast" => row[EnemCol].num = 480 * row[EnemCol].den

\* The triangulation has raised SP 500, RJ 480, MG 460 to the Southeast's
\* 1440/3 and merged it with the regional PISA table.
C12_Witness ==
    /\ w_script = "triangulation" /\ wave = "2018" /\ w_pc = "done"
    /\ enem_raw.rows = {Summary("SP", 500), Summary("RJ", 480), Summary("MG", 460)}
    /\ df_enem = {KeyScore("KEY", "Southeast", "ENEM_Score", Rat(1440, 3))}
    /\ \E row \in df_final : row.KEY = "Southeast" /\ row.ENEM_Score = Rat(1440, 3)

-----------------------------------------------------------------------------
(* Reconciliation precedes the join.                                         *)

\* The five macro-regions, the keys of a region-level table.
RegionKeys == {"North", "Northeast", "Southeast", "South", "Center-West"}

\* The level of a key: a region name, or else the key of a state-level row.
KeyLevel(k) == IF k \in RegionKeys THEN "Region" ELSE "State"

\* The levels of the keys on the two sides of a merge.
LevelsOf(m) == {KeyLevel(k) : k \in m.left \cup m.right}

\* C13: reconciliation precedes the join: no merge ever has state keys on
\* one side and region keys on the other; in a regional wave the table that
\* is merged with the PISA regions has region keys only.
C13_ReconcileBeforeJoin ==
    \A i \in 1..Len(merges) :
        /\ Cardinality(LevelsOf(merges[i])) <= 1
        /\ WaveRegional => \A k \in merges[i].right : KeyLevel(k) = "Region"

\* A regional wave of the triangulation has merged both state-level files,
\* raised to regions, with the PISA regions.
C13_Witness ==
    /\ w_script = "triangulation" /\ wave = "2022" /\ w_pc = "done"
    /\ Len(merges) = 2
    /\ \E r \in enem_raw.rows : KeyLevel(r.KEY) = "State"
    /\ \E r \in saeb_raw.rows : KeyLevel(r.KEY) = "State"
    /\ \A i \in 1..2 : merges[i].left # {} /\ merges[i].right # {}
                       /\ LevelsOf(merges[i]) = {"Region"}

-----------------------------------------------------------------------------
(* Means and their denominators.                                             *)

\* The subjects of r that have a score (a text that is not a number is
\* none); with zeros_missing a zero is no score.
Scored(r, zeros_missing) ==
    {c \in ScoreSet \cap DOMAIN r :
        r[c] \notin {NA, Malformed} /\ (zeros_missing => r[c] # 0)}

RECURSIVE SubjectSum(_, _)
SubjectSum(r, S) ==
    IF S = {} THEN 0
    ELSE LET c == CHOOSE x \in S : TRUE IN r[c] + SubjectSum(r, S \ {c})

\* The record as the means see it: each subject's score or a missing value,
\* and the composite, the arithmetic mean of the record's scores (in units of
\* 1/MeanScale), missing when it has none.
Scores(r, zeros_missing) ==
    LET has == Scored(r, zeros_missing)
    IN  [c \in (ScoreSet \cap DOMAIN r) \cup {"Mean_General"} |->
            IF c = "Mean_General"
            THEN IF has = {} THEN NA
                 ELSE (MeanScale * SubjectSum(r, has)) \div Cardinality(has)
            ELSE IF c \in has THEN r[c] ELSE NA]

\* The accepted records of unit u.
AcceptedOf(u) == SelectSeq(FilterOf(rows), LAMBDA r : r["UF"] = u)

\* Sum of the non-missing values of column c over the accepted records of u,
\* over the number of those records whose value in c is not missing.
ColumnMean(u, c, zeros_missing) ==
    LET acc == AcceptedOf(u)
        seen == [i \in DOMAIN acc |-> Scores(acc[i], zeros_missing)]
    IN  Rat(NumSum(seen, c), NumCount(seen, c) * Unit(c))

\* Two quotients with the same value, or both 0/0.
SameRat(a, b) ==
    IF IsNaN(a) \/ IsNaN(b) THEN IsNaN(a) /\ IsNaN(b)
    ELSE a.num * b.den = b.num * a.den

\* C14: matching denominators. In a saved ENEM table every mean of a unit,
\* each subject's and the composite's, is the sum of the column's non-missing
\* values over the unit's accepted records divided by the number of accepted
\* records that have a value in that same column; the composite of a record
\* is the mean of its non-missing subjects. (Whether a zero counts as a
\* value is left to the script, the same way for all columns.)
C14_MatchingDenominators ==
    Saved =>
        \E zeros_missing \in BOOLEAN :
            \A i \in DOMAIN final_df :
                \A c \in DOMAIN final_df[i].mean \cap (ScoreSet \cup {"Mean_General"}) :
                    SameRat(final_df[i].mean[c],
                            ColumnMean(final_df[i].UF, c, zeros_missing))

-----------------------------------------------------------------------------
(* Network share.                                                            *)

\* The administrative dependencies that say public, and those that say
\* which network a school belongs to at all.
PublicCodes == {1, 2, 3}

KnownCodes == {1, 2, 3, 4}

\* How many rows of rs have their dependency among codes.
CountIn(rs, codes) == Len(SelectSeq(rs, LAMBDA r : r["TEMP_ADM"] \in codes))

\* C15: network share. For every unit of a grouped frame of cog03, the
\* public share is the number of accepted schools whose dependency says
\* public over the number of accepted schools whose dependency is a known
\* code; a school with a missing or unknown dependency is in neither.
C15_NetworkShare ==
    \A i \in DOMAIN grouped : \A u \in DOMAIN grouped[i].Public_Share :
        SameRat(grouped[i].Public_Share[u],
                Rat(CountIn(UfGroup(grouped[i].sub, u), PublicCodes),
                    CountIn(UfGroup(grouped[i].sub, u), KnownCodes)))

-----------------------------------------------------------------------------
(* Unresolved geography: dropped and reported.                               *)

\* The Brazilian rows of the run, and those of them whose STRATUM did not
\* resolve to a region.
PisaBrazil == BrazilRows(pisa_script, pisa_df)

PisaUnresolved == {i \in DOMAIN pisa_region : pisa_region[i] = "UNKNOWN"}

\* A printed line that gives the number of unresolved rows and a sample of
\* their raw values.
ReportsUnresolved(line) ==
    /\ "n" \in DOMAIN line /\ "sample" \in DOMAIN line
    /\ line.n = Cardinality(PisaUnresolved)
    /\ line.sample # <<>>
    /\ \A k \in DOMAIN line.sample :
          \E i \in PisaUnresolved : line.sample[k] = PisaBrazil[i].STRATUM

\* C16: unresolved geography is dropped and reported. Once the regions are
\* decoded, a row whose STRATUM resolves to no region is in no group of the
\* written table (the counts of the groups are those of the resolved rows),
\* and when there is such a row the run has printed the number of
\* unresolved rows with a sample of their raw values.
C16_DroppedAndReported ==
    pisa_region # <<>> =>
        /\ \A row \in PisaEmitted :
              /\ row.Region # "UNKNOWN"
              /\ row.Student_Count = Cardinality(PisaPlaced(row.Region))
        /\ PisaUnresolved # {} =>
              \E k \in DOMAIN pisa_log : ReportsUnresolved(pisa_log[k])

-----------------------------------------------------------------------------
(* Per-record anomalies.                                                     *)

\* The rows of rs with every score that is not a number read as missing.
MalformedAsMissing(rs) ==
    [i \in DOMAIN rs |-> Coerce(rs[i], ValidScores(DOMAIN rs[i]))]

\* An accepted record of the file read so far has a score that is not a
\* number.
AcceptedMalformed == HasText(FilterOf(rows), ValidScores(Cols))

\* C17: per-record anomalies never abort. No run ends in an exception raised
\* by the value of a score cell, and a saved table is the one the script
\* makes of the same records with the scores that fail numeric parsing read
\* as missing.
C17_MalformedIsMissing ==
    /\ pc = "done" /\ outcome = "exception" => "TypeError" \notin err
    /\ Saved => SeqToSet(final_df) = FinalOf(ReduceOf(MalformedAsMissing(FilterOf(rows))))

-----------------------------------------------------------------------------
(* Output ordering.                                                          *)

Letters == "ABCDEFGHIJKLMNOPQRSTUVWXYZ"

\* The place of a capital letter in the alphabet, 0 for any other character.
LetterRank(c) ==
    IF \E i \in 1..Len(Letters) : SubSeq(Letters, i, i) = c
    THEN CHOOSE i \in 1..Len(Letters) : SubSeq(Letters, i, i) = c
    ELSE 0

\* a < b in lexicographic order.
LexLess(a, b) ==
    \E k \in 1..(Len(b)) :
        /\ SubSeq(a, 1, k - 1) = SubSeq(b, 1, k - 1)
        /\ \/ k > Len(a)
           \/ LetterRank(SubSeq(a, k, k)) < LetterRank(SubSeq(b, k, k))

-----------------------------------------------------------------------------
(* A run over several files: main() of the unified ENEM pipeline and of the  *)
(* historical SAEB pipeline loops over the years and builds one pipeline     *)
(* object per file; pass 1 of process() resolves the file's schema.          *)

MaxFiles == 3

\* Batches read of one file.
MaxBatches == 2

RunScripts == {"unified", "legacy", "saebhist"}

\* The scripts that read a file in chunks.
Chunked == {"unified", "legacy"}

Delimiters == {";", ","}

\* The first line of a file: its column names joined by its delimiter.
RECURSIVE JoinLine(_, _)
JoinLine(names, delim) ==
    IF names = <<>> THEN ""
    ELSE IF Len(names) = 1 THEN names[1]
    ELSE names[1] \o delim \o JoinLine(Tail(names), delim)

\* Where a character stands in a line.
Positions(s, ch) == {i \in 1..Len(s) : SubSeq(s, i, i) = ch}

\* Python's str.count of one character.
CountCh(s, ch) == Cardinality(Positions(s, ch))

\* sep = ';' if first_line.count(';') > first_line.count(',') else ','
detect_separator(first_line) ==
    IF CountCh(first_line, ";") > CountCh(first_line, ",") THEN ";" ELSE ","

\* pd.read_csv(f, sep=sep, nrows=0).columns.tolist(): the first line cut at
\* every sep.
ReadHeader(first_line, sep) ==
    LET P == Positions(first_line, sep)
        cut(k) == IF k = 0 THEN 0
                  ELSE IF k > Cardinality(P) THEN Len(first_line) + 1
                  ELSE CHOOSE q \in P : Cardinality({x \in P : x < q}) = k - 1
    IN  [k \in 1..(Cardinality(P) + 1) |->
            SubSeq(first_line, cut(k - 1) + 1, cut(k) - 1)]

\* The headers of the files of a run.
RunHeaders(s) ==
    IF s = "unified"
    THEN { Hdr(TRUE, TRUE, TRUE, FALSE), Hdr(TRUE, FALSE, TRUE, FALSE),
           <<"sg_uf_prova">> \o Hdr(TRUE, FALSE, FALSE, FALSE) }
    ELSE IF s = "legacy"
    THEN { Hdr(TRUE, TRUE, TRUE, FALSE), Hdr(FALSE, TRUE, TRUE, FALSE),
           <<"SG_UF_PROVA">> }
    ELSE { <<"ID_UF", "ID_DEPENDENCIA_ADM", "MEDIA_EM_LP", "MEDIA_EM_MT",
             "NU_PRESENTES_EM">>,
           <<"UF", "ID_DEPENDENCIA_ADM", "MEDIA_9EF_LP", "MEDIA_9EF_MT",
             "MEDIA_3EM_LP", "MEDIA_3EM_MT">> }

\* The years main() may be given: the SAEB hints depend on the year, the ENEM
\* target columns do not.
RunYears(s) == IF s = "saebhist" THEN Years ELSE {2022}

RunFiles(s) ==
    {[first_line |-> JoinLine(h, dl), year |-> y] :
        h \in RunHeaders(s), dl \in Delimiters, y \in RunYears(s)}

\* A map that would survive from one file to the next.
KeptColMap(prev) == prev

\* col_map = {} at the top of process(): every file starts from an empty map.
NewColMap(prev) == <<>>

\* sep = ';' and filter_mode = 'ALL_DATA' are set next to col_map = {}.
UnifiedLocals == [sep |-> ";", col_map |-> <<>>, filter_mode |-> "ALL_DATA"]

RunInit ==
    /\ run_script \in RunScripts
    /\ run_files \in UNION {[1..n -> RunFiles(run_script)] : n \in 1..MaxFiles}
    /\ run_idx = 1
    /\ run_pc = "pass1"
    /\ run_schema = IF run_script = "unified" THEN UnifiedLocals ELSE <<>>
    /\ schemas = <<>>
    /\ batches = <<>>

RunIdle ==
    /\ run_script = "none"
    /\ run_files = <<>>
    /\ run_idx = 0
    /\ run_pc = "idle"
    /\ run_schema = <<>>
    /\ schemas = <<>>
    /\ batches = <<>>

\* unified, pass 1 of one file: the delimiter, the header, col_map (filled by
\* col_map[found] = k on the map process() starts with) and the methodology
\* decision.
UnifiedPass1 ==
    /\ run_script = "unified" /\ run_pc = "pass1"
    /\ LET file == run_files[run_idx]
           sep == detect_separator(file.first_line)
           hdr == ReadHeader(file.first_line, sep)
           cm == ResolveColMap(hdr, UnifiedTargets) @@ NewColMap(run_schema.col_map)
       IN  /\ run_schema' = [sep |-> sep, col_map |-> cm, filter_mode |-> UnifiedMode(cm)]
           /\ schemas' = Append(schemas, run_schema')
    /\ run_pc' = "pass2"
    /\ UNCHANGED <<run_script, run_files, run_idx, batches>>
    /\ UNCHANGED notRun

\* saebhist, the with block of one file: the delimiter, the header, the
\* dependency and UF columns and the grades found by the hints of the year.
SaebHistPass1 ==
    /\ run_script = "saebhist" /\ run_pc = "pass1"
    /\ LET file == run_files[run_idx]
           sep == detect_separator(file.first_line)
           hdr == ReadHeader(file.first_line, sep)
       IN  /\ run_schema' = [sep |-> sep, col_adm |-> SaebHistAdm(hdr),
                             col_uf |-> SaebHistUf(hdr),
                             grades |-> grades_to_process(hdr, file.year)]
           /\ schemas' = Append(schemas, run_schema')
    /\ run_pc' = "pass2"
    /\ UNCHANGED <<run_script, run_files, run_idx, batches>>
    /\ UNCHANGED notRun

\* legacy, the top of the with block of one file: the delimiter, tried the
\* other way when the header has fewer than two names, col_map and
\* has_status_col; without a UF column process() returns.
LegacyPass1 ==
    /\ run_script = "legacy" /\ run_pc = "pass1"
    /\ LET file == run_files[run_idx]
           sep0 == detect_separator(file.first_line)
           sep == IF Len(ReadHeader(file.first_line, sep0)) < 2
                  THEN (IF sep0 = ";" THEN "," ELSE ";") ELSE sep0
           hdr == ReadHeader(file.first_line, sep)
           cm == ResolveColMap(hdr, LegacyTargets)
       IN  /\ run_schema' = [sep |-> sep, col_map |-> cm,
                             has_status_col |-> LegacyHasStatus(cm)]
           /\ schemas' = Append(schemas, run_schema')
           /\ run_pc' = IF "UF" \in Range(cm) THEN "pass2" ELSE "returned"
    /\ UNCHANGED <<run_script, run_files, run_idx, batches>>
    /\ UNCHANGED notRun

\* The schema of the first file of the run.
FirstFileSchema == schemas[1]

\* What a batch is read with: the reader was made with sep and the keys of
\* col_map, the chunk is renamed by col_map and filtered by the policy, all
\* of them locals of process() that the loop only reads.
BatchSchema == run_schema

\* for chunk in reader: one more batch of the file is read, renamed and
\* filtered.
RunBatch ==
    /\ run_script \in Chunked /\ run_pc = "pass2"
    /\ Len(batches) < MaxBatches
    /\ batches' = Append(batches, BatchSchema)
    /\ UNCHANGED <<run_script, run_files, run_idx, run_pc, run_schema, schemas>>
    /\ UNCHANGED notRun

\* process() is over, by a return, by the end of the reader or by an
\* exception caught inside it, and main()'s loop goes on to the next file,
\* with a new pipeline object and no reader yet.
RunNextFile ==
    /\ run_pc \in {"pass2", "returned"}
    /\ IF run_idx < Len(run_files)
       THEN run_idx' = run_idx + 1 /\ run_pc' = "pass1" /\ batches' = <<>>
       ELSE run_pc' = "done" /\ UNCHANGED <<run_idx, batches>>
    /\ UNCHANGED <<run_script, run_files, run_schema, schemas>>
    /\ UNCHANGED notRun

RunNext == UnifiedPass1 \/ LegacyPass1 \/ SaebHistPass1 \/ RunBatch \/ RunNextFile

-----------------------------------------------------------------------------
(* Resolver determinism.                                                     *)

\* C19: two files of one run with the same first line (and, for the SAEB
\* hints, the same year) get the same column map, delimiter and cohort
\* policy, whatever was processed between them.
C19_ResolverDeterminism ==
    \A a \in DOMAIN schemas : \A b \in DOMAIN schemas :
        run_files[a] = run_files[b] => schemas[a] = schemas[b]

\* A run that resolved a file, then a file with another header and another
\* schema, then the first file again.
C19_Witness ==
    /\ Len(schemas) = 3
    /\ run_files[1] = run_files[3]
    /\ run_files[1].first_line # run_files[2].first_line
    /\ schemas[1] # schemas[2]
    /\ schemas[3] = schemas[1]

-----------------------------------------------------------------------------
(* Resolution order.                                                         *)

\* The candidate names and the fallback pattern each script looks the
\* dependency and the UF column up with.
AdmCandidates ==
    IF script = "cog03"
    THEN <<"ID_DEPENDENCIA_ADM", "IN_PUBLICA", "ID_REDE", "TP_DEPENDENCIA">>
    ELSE <<>>

UfCandidates ==
    IF script = "cog03" THEN <<"ID_UF", "CO_UF", "UF", "SG_UF">>
    ELSE <<"ID_UF", "UF", "CO_UF">>

\* The header entries equal, up to case, to the first candidate that has one.
PreferredExact(hdr, candidates) ==
    LET m(j) == {i \in DOMAIN hdr : Upper(hdr[i]) = Upper(candidates[j])}
        J == {j \in DOMAIN candidates : m(j) # {}}
    IN  IF J = {} THEN {} ELSE {hdr[i] : i \in m(FirstIndex(J))}

\* The first header entry, in header order, that contains the pattern up to
\* case.
FirstContaining(hdr, pattern) ==
    At(hdr, FirstIndex({i \in DOMAIN hdr : Contains(Upper(hdr[i]), Upper(pattern))}))

\* col is what the preference order gives: an exact match of the first
\* matching candidate, else the first entry containing the fallback pattern,
\* else absent.
InOrder(col, hdr, candidates, fallback) ==
    IF PreferredExact(hdr, candidates) # {} THEN col \in PreferredExact(hdr, candidates)
    ELSE IF fallback # None THEN col = FirstContaining(hdr, fallback)
    ELSE col = None

\* C20: once the header is resolved, the dependency column and the UF column
\* are the ones the preference order gives: the first candidate with a
\* case-insensitive exact match wins wherever it stands in the header, the
\* substring pattern is used only without an exact match and gives the first
\* header entry containing it, and a field without a match is absent.
C20_ResolutionOrder ==
    (saeb_cols # <<>> /\ script \in {"cog03", "saebhist"}) =>
        /\ InOrder(saeb_cols.col_adm, saeb_header, AdmCandidates, "DEPENDENCIA")
        /\ InOrder(saeb_cols.col_uf, saeb_header, UfCandidates, None)

-----------------------------------------------------------------------------
(* Duplicate header matches.                                                 *)

\* The header pass 1 read of the k-th file of the run.
HeaderOf(k) == ReadHeader(run_files[k].first_line, schemas[k].sep)

\* The first entry of the header equal to c up to case.
FirstOccurrence(hdr, c) ==
    At(hdr, FirstIndex({i \in DOMAIN hdr : Upper(hdr[i]) = Upper(c)}))

\* C21: every raw column the resolver put in the column map is the first
\* header entry, in header order, among the entries equal to it up to letter
\* case.
C21_FirstOccurrenceWins ==
    run_script \in Chunked =>
        \A k \in DOMAIN schemas : \A c \in DOMAIN schemas[k].col_map :
            c = FirstOccurrence(HeaderOf(k), c)

-----------------------------------------------------------------------------
(* Keyword-in-text strategy.                                                 *)

Pisa2022 == {"hist2022", "region2022", "legacy2022"}

\* The regions whose multi-word keyword occurs in the upper-cased text.
MultiWordRegions(stratum) ==
    LET s == Upper(stratum)
    IN  (IF Contains(s, "CENTRO-OESTE") \/ Contains(s, "CENTRO OESTE")
         THEN {"Center-West"} ELSE {})
        \cup (IF Contains(s, "NORDESTE") THEN {"Northeast"} ELSE {})
        \cup (IF Contains(s, "SUDESTE") THEN {"Southeast"} ELSE {})

\* The regions whose single-word keyword occurs in the upper-cased text.
SingleWordRegions(stratum) ==
    LET s == Upper(stratum)
    IN  (IF Contains(s, "NORTE") THEN {"North"} ELSE {})
        \cup (IF Contains(s, "SUL") THEN {"South"} ELSE {})

\* The regions a text may resolve to: multi-word keywords before single-word
\* ones, UNKNOWN without a keyword.
KeywordRegions(stratum) ==
    IF MultiWordRegions(stratum) # {} THEN MultiWordRegions(stratum)
    ELSE IF SingleWordRegions(stratum) # {} THEN SingleWordRegions(stratum)
    ELSE {"UNKNOWN"}

\* C22: in every variant of the 2022 decoder the region of a Brazilian row is
\* that of a multi-word keyword of its stratum text when one occurs, whether
\* or not 'NORTE' or 'SUL' occur too, that of 'NORTE' or 'SUL' only
\* otherwise, and UNKNOWN when the text has no keyword.
C22_MultiWordFirst ==
    (pisa_script \in Pisa2022 /\ pisa_region # <<>>) =>
        LET br == BrazilRows(pisa_script, pisa_df)
        IN  \A i \in DOMAIN br : pisa_region[i] \in KeywordRegions(br[i].STRATUM)

-----------------------------------------------------------------------------
(* Header first, schema fixed.                                               *)

\* C23: a batch of a file is read only after pass 1 of that file has
\* resolved the delimiter, the column map and the cohort policy, and every
\* batch of the file is read with exactly that delimiter, map and policy.
C23_SchemaFixed ==
    batches # <<>> =>
        /\ Len(schemas) = run_idx
        /\ \A b \in DOMAIN batches : batches[b] = schemas[run_idx]

\* Two batches of the second file of a run whose first file resolved to
\* another schema.
C23_Witness ==
    /\ run_idx = 2
    /\ Len(schemas) = 2
    /\ Len(batches) = 2
    /\ schemas[1] # schemas[2]
    /\ batches[1] = schemas[2] /\ batches[2] = schemas[2]

-----------------------------------------------------------------------------
(* The standard deviation at finalize, in floating point: the consolidation *)
(* of 04_process_enem_historical.py and legacy/99_04 for one score column   *)
(* of one UF.                                                                *)

\* Scores per chunk.
MaxScores == 2

\* The cells of the column: numbers and a missing one.
FinScores == {NA, 5, 7}

\* groupby('UF')[col].agg(['sum', 'count']) and the sum of col ** 2 of one
\* chunk; a missing cell is skipped.
ChunkTotals(xs) ==
    LET v == SelectSeq(xs, LAMBDA x : x # NA)
    IN  [sum |-> SumSeq(v), count |-> Len(v), sq |-> SumSeq([i \in DOMAIN v |-> v[i] * v[i]])]

FinChunks == {ChunkTotals(xs) : xs \in UNION {[1..n -> FinScores] : n \in 1..MaxScores}}

\* The subtraction sum_sq / count - mean ** 2 is done on floats: its result
\* is the exact difference up to a rounding error, one unit of the numerator
\* either way.
RoundingErrors == {0 - 1, 0, 1}

FinInit ==
    /\ fin_parts \in UNION {[1..n -> FinChunks] : n \in 1..MaxChunk}
    /\ fin_err \in RoundingErrors
    /\ fin_pc = "storage"
    /\ fin_agg = <<>>
    /\ fin_out = <<>>

FinIdle ==
    /\ fin_parts = <<>>
    /\ fin_err = 0
    /\ fin_pc = "idle"
    /\ fin_agg = <<>>
    /\ fin_out = <<>>

\* full_agg = pd.concat(agg_storage).groupby(level=0).sum()
FinMerge ==
    /\ fin_pc = "storage"
    /\ fin_agg' = [k \in {"sum", "count", "sq"} |->
                      SumSeq([i \in DOMAIN fin_parts |-> fin_parts[i][k]])]
    /\ fin_pc' = "merged"
    /\ UNCHANGED <<fin_parts, fin_err, fin_out>>
    /\ UNCHANGED notFin

\* np.sqrt(x): NaN for a missing or a negative x.
Sqrt(q) == [of |-> q, nan |-> IsNaN(q) \/ q.num < 0]

\* final_df[col] = sum_val / count_val; variance = sum_sq_val / count_val -
\* final_df[col] ** 2; final_df[col_std] = np.sqrt(variance.clip(lower=0)).
\* With count 0 the mean and the variance are NaN, which clip leaves alone.
FinFinalize ==
    /\ fin_pc = "merged"
    /\ LET sum == fin_agg["sum"]
           count == fin_agg["count"]
           raw == IF count = 0 THEN 0
                  ELSE fin_agg["sq"] * count - sum * sum + fin_err
           variance == Rat(Clip(raw), count * count)
       IN  fin_out' = [mean |-> Rat(sum, count), raw |-> Rat(raw, count * count),
                       variance |-> variance, std |-> Sqrt(variance)]
    /\ fin_pc' = "done"
    /\ UNCHANGED <<fin_parts, fin_err, fin_agg>>
    /\ UNCHANGED notFin

FinNext == FinMerge \/ FinFinalize

\* The cells of all the chunks of the column, as one chunk would total them.
FinTotal(k) == SumSeq([i \in DOMAIN fin_parts |-> fin_parts[i][k]])

\* C24: at finalize the variance of a column is sum_sq/count - mean^2 of the
\* merged totals of all chunks, clipped below at 0, and the standard
\* deviation is the root of that clipped value: never the root of a negative
\* number, and missing only when the column has no value at all.
C24_ClippedStd ==
    fin_pc = "done" =>
        /\ fin_agg = [k \in {"sum", "count", "sq"} |-> FinTotal(k)]
        /\ fin_out.raw.num = (IF FinTotal("count") = 0 THEN 0
                              ELSE FinTotal("sq") * FinTotal("count")
                                   - FinTotal("sum") * FinTotal("sum") + fin_err)
        /\ fin_out.variance.num = (IF fin_out.raw.num < 0 THEN 0 ELSE fin_out.raw.num)
        /\ fin_out.variance.num >= 0
        /\ fin_out.std.of = fin_out.variance
        /\ fin_out.std.nan <=> FinTotal("count") = 0

\* Equal scores in two chunks, where the float subtraction fell below zero
\* and the emitted standard deviation is the root of 0.
C24_Witness ==
    /\ fin_pc = "done"
    /\ Len(fin_parts) = 2
    /\ fin_agg["count"] >= 2
    /\ fin_out.raw.num < 0
    /\ fin_out.variance.num = 0
    /\ ~fin_out.std.nan

-----------------------------------------------------------------------------
(* All-or-nothing output per file.                                           *)

\* C25: when the processing of a file has ended in an exception caught by
\* process(), no table of that file has been written: not the table of an
\* earlier grade either.
C25_AllOrNothing ==
    (script = "cog03" /\ saeb_outcome = "exception") => saved = <<>>

-----------------------------------------------------------------------------
(* C26: the subject columns of a grade are mandatory. *)

\* The Language and Math columns of a grade as the script resolves them in
\* the header: cog03 by its search, cog01 by the first names holding the
\* hints of the year, the historical script by the hint pair of the year
\* when both hinted names are in the header and by the heuristic otherwise.
SubjectPair(g) ==
    IF script = "cog03"
    THEN [lp |-> find_grade_columns(saeb_header, g).lp,
          mt |-> find_grade_columns(saeb_header, g).mt]
    ELSE IF script = "cog01"
    THEN [lp |-> FirstWithHint(saeb_header, COLUMN_MAPPING(year, g).LP),
          mt |-> FirstWithHint(saeb_header, COLUMN_MAPPING(year, g).MT)]
    ELSE IF {column_hints(year, g).LP, column_hints(year, g).MT}
                \subseteq SeqToSet(saeb_header)
    THEN [lp |-> column_hints(year, g).LP, mt |-> column_hints(year, g).MT]
    ELSE find_columns_heuristic(saeb_header, g)

BothResolved(g) ==
    LET pair == SubjectPair(g)
    IN  pair.lp \in SeqToSet(saeb_header) /\ pair.mt \in SeqToSet(saeb_header)

SaebGrades ==
    IF script = "saebhist" THEN {"5EF", "9EF", "3EM"} ELSE {"9EF", "3EM"}

PerGrade == {"cog03", "saebhist", "cog01"}

\* C26: in the per-grade SAEB scripts every emitted row belongs to a grade
\* whose Language and Math columns were both resolved in the header, the
\* grades kept for processing carry exactly that pair, and a file in which
\* no grade resolves both columns ends without output (the scripts that
\* build the list of grades first end it as skipped).
C26_SubjectColumnsMandatory ==
    script \in PerGrade =>
        /\ \A k \in DOMAIN saved : \A i \in DOMAIN saved[k] :
              saved[k][i].Grade \in SaebGrades
        /\ \A g \in SaebGrades :
              (\E k \in DOMAIN saved : \E i \in DOMAIN saved[k] : saved[k][i].Grade = g)
                  => BothResolved(g)
        /\ (script \in {"saebhist", "cog01"} /\ saeb_pc # "start") =>
              \A i \in DOMAIN saeb_cols.grades :
                  /\ BothResolved(saeb_cols.grades[i].grade)
                  /\ saeb_cols.grades[i].lp = SubjectPair(saeb_cols.grades[i].grade).lp
                  /\ saeb_cols.grades[i].mt = SubjectPair(saeb_cols.grades[i].grade).mt
        /\ (saeb_pc = "done" /\ \A g \in SaebGrades : ~BothResolved(g)) =>
              /\ saved = <<>>
              /\ script \in {"saebhist", "cog01"} => saeb_outcome = "skip"

\* The historical script has written a table from a file that holds the
\* Language column of the 9th grade without its Math column.
C26_Witness ==
    /\ script = "saebhist" /\ saeb_pc = "done" /\ saved # <<>>
    /\ "MEDIA_9EF_LP" \in SeqToSet(saeb_header)
    /\ ~BothResolved("9EF")
    /\ \A i \in DOMAIN saved[1] : saved[1][i].Grade = "3EM"

-----------------------------------------------------------------------------
(* The orchestrator: 00_run_pipeline.py. main() runs the scripts of           *)
(* PIPELINE_SCRIPTS one after the other, each in a subprocess it waits for.   *)

PIPELINE_SCRIPTS ==
    <<"src/cog/01_process_saeb_historical.py",
      "src/cog/01_process_saeb_2023_uf_region.py",
      "src/cog/02_process_pisa_2015_uf_region.py",
      "src/cog/02_process_pisa_2018_region.py",
      "src/cog/02_process_pisa_2022_region.py",
      "src/cog/04_process_enem_historical.py",
      "src/cog/04_process_enem_triennium.py",
      "src/cog/03_consolidate_longitudinal_panel.py",
      "src/cog/05_correlate_pearson_spearman.py",
      "src/cog/06_visualize_correlations.py">>

\* A loop without a critical step: no script stops it.
NoCriticalStep(path) == FALSE

\* if "03_consolidate" in script
IsConsolidation(path) == Contains(path, "03_consolidate")

\* How subprocess.run ends: exit code 0, another exit code, or an exception
\* raised by the call itself.
Endings == {"zero", "nonzero", "raised"}

\* main() has opened the log and is about to enter the loop.
OrchInit ==
    /\ orch_pc = "loop"
    /\ script_idx = 1
    /\ started = <<>>
    /\ results = <<>>
    /\ success_count = 0
    /\ summary = <<>>

\* The orchestrator does not run.
OrchIdle ==
    /\ orch_pc = "idle"
    /\ script_idx = 0
    /\ started = <<>>
    /\ results = <<>>
    /\ success_count = 0
    /\ summary = <<>>

\* A loop that any failed step stops.
StopOnAnyFailure(success) ==
    /\ results' = Append(results, success)
    /\ success_count' = IF success THEN success_count + 1 ELSE success_count
    /\ IF ~success
       THEN orch_pc' = "summary" /\ UNCHANGED script_idx
       ELSE /\ script_idx' = script_idx + 1
            /\ orch_pc' = IF script_idx = Len(PIPELINE_SCRIPTS) THEN "summary" ELSE "loop"

\* The body of the for loop after run_script returned success.
AfterScript(success) ==
    /\ results' = Append(results, success)
    /\ success_count' = IF success THEN success_count + 1 ELSE success_count
    /\ IF ~success /\ IsConsolidation(PIPELINE_SCRIPTS[script_idx])
       THEN orch_pc' = "summary" /\ UNCHANGED script_idx
       ELSE /\ script_idx' = script_idx + 1
            /\ orch_pc' = IF script_idx = Len(PIPELINE_SCRIPTS) THEN "summary" ELSE "loop"

\* run_script on a path that does not exist: it returns False at once.
OrchMissing ==
    /\ orch_pc = "loop"
    /\ AfterScript(FALSE)
    /\ UNCHANGED <<started, summary>>
    /\ UNCHANGED notOrch

\* run_script on a path that exists: the subprocess is started.
OrchStart ==
    /\ orch_pc = "loop"
    /\ started' = Append(started, script_idx)
    /\ orch_pc' = "running"
    /\ UNCHANGED <<script_idx, results, success_count, summary>>
    /\ UNCHANGED notOrch

\* subprocess.run returns or raises: the subprocess has ended, and run_script
\* returns True for exit code 0 alone.
OrchFinish ==
    /\ orch_pc = "running"
    /\ \E ending \in Endings : AfterScript(ending = "zero")
    /\ UNCHANGED <<started, summary>>
    /\ UNCHANGED notOrch

\* The summary after the loop.
OrchSummary ==
    /\ orch_pc = "summary"
    /\ summary' = [Queued |-> Len(PIPELINE_SCRIPTS),
                   Successful |-> success_count,
                   Failed_Skipped |-> Len(PIPELINE_SCRIPTS) - success_count]
    /\ orch_pc' = "done"
    /\ UNCHANGED <<script_idx, started, results, success_count>>
    /\ UNCHANGED notOrch

OrchNext == OrchMissing \/ OrchStart \/ OrchFinish \/ OrchSummary

-----------------------------------------------------------------------------
(* C27 and C28: the stop rule, the order and the accounting of a run.        *)

\* The entries of the list whose path contains '03_consolidate', and the
\* entries listed after one of them (the analytics steps).
ConsolidationSteps ==
    {c \in DOMAIN PIPELINE_SCRIPTS : Contains(PIPELINE_SCRIPTS[c], "03_consolidate")}

Downstream ==
    {i \in DOMAIN PIPELINE_SCRIPTS : \E c \in ConsolidationSteps : c < i}

Started == {started[k] : k \in DOMAIN started}

\* run_script has returned for entry i, with that result.
Returned(i, result) == i \in DOMAIN results /\ results[i] = result

\* C27: stop rule. At every point of a run, an entry listed after the
\* consolidation step has been started only if consolidation returned
\* success before; and once consolidation has returned failure the loop is
\* over, at that entry, with nothing after it started or tried.
C27_StopRule ==
    /\ \A i \in Started : \A c \in ConsolidationSteps :
          c < i => Returned(c, TRUE)
    /\ \A c \in ConsolidationSteps :
          Returned(c, FALSE) =>
              /\ orch_pc \in {"summary", "done"}
              /\ script_idx = c
              /\ Len(results) = c
              /\ Started \cap Downstream = {}

\* The consolidation step was started and failed, and the run has ended with
\* no analytics step started.
C27_Witness ==
    /\ orch_pc = "done"
    /\ \E c \in ConsolidationSteps \cap Started : Returned(c, FALSE)
    /\ Started \cap Downstream = {}
    /\ Downstream # {}

\* The number of entries of a sequence of results equal to a result.
CountResults(result) == Cardinality({i \in DOMAIN results : results[i] = result})

\* C28: ordering and accounting. Subprocesses are started in list order, each
\* entry at most once; a subprocess is started only when run_script has
\* returned for every entry before it, so that consolidation starts only
\* after every extraction step has ended or was found missing; a run ends
\* with every entry tried unless consolidation failed, whatever the
\* extraction steps returned; and the summary counts satisfy Successful +
\* Failed/Skipped = Queued, with Successful the number of entries that
\* returned success and Failed/Skipped the entries that returned failure
\* plus the entries never tried.
C28_OrderAndAccounting ==
    /\ \A j, k \in DOMAIN started : j < k => started[j] < started[k]
    /\ \A k \in DOMAIN started :
          /\ \A i \in 1..(started[k] - 1) : i \in DOMAIN results
          /\ \/ started[k] \in DOMAIN results
             \/ orch_pc = "running" /\ k = Len(started) /\ started[k] = script_idx
    /\ orch_pc = "running" => Len(results) = script_idx - 1
    /\ orch_pc = "done" =>
          /\ \/ Len(results) = Len(PIPELINE_SCRIPTS)
             \/ \E c \in ConsolidationSteps : Len(results) = c /\ Returned(c, FALSE)
          /\ summary.Queued = Len(PIPELINE_SCRIPTS)
          /\ summary.Successful + summary.Failed_Skipped = summary.Queued
          /\ summary.Successful = CountResults(TRUE)
          /\ summary.Failed_Skipped =
                CountResults(FALSE) + (Len(PIPELINE_SCRIPTS) - Len(results))

\* A run has ended in which an extraction step crashed, another was missing,
\* consolidation was nevertheless started, and consolidation failed, so that
\* the analytics steps count as Failed/Skipped without having been tried.
C28_Witness ==
    /\ orch_pc = "done"
    /\ Returned(1, FALSE) /\ 1 \in Started
    /\ Returned(4, FALSE) /\ 4 \notin Started
    /\ \E c \in ConsolidationSteps \cap Started : Returned(c, FALSE)
    /\ Len(results) < Len(PIPELINE_SCRIPTS)
    /\ summary.Successful = 5
    /\ summary.Failed_Skipped = 5

-----------------------------------------------------------------------------
(* C29: empty batches. *)

\* The scripts whose loop skips a batch without accepted records.
SkippingVariants == {"historical", "unified"}

\* The record passes the cohort filter in force: status 2 under the strict
\* policy, a school id under the proxy policy, every record without a policy.
PassesCohort(r) ==
    IF Strict THEN r["STATUS"] = 2
    ELSE IF filter_mode = "PROXY_3EM" THEN r["SCHOOL_ID"] # NA
    ELSE TRUE

CohortRows(rs) == SelectSeq(rs, LAMBDA r : PassesCohort(r))

\* C29: a batch read in which no record passes the cohort filter leaves the
\* list of partial per-UF states, the consolidated totals, the output table
\* and the outcome as they were (the rows seen advance); and a run that has
\* ended on a file without an accepted record has written no table.
C29_EmptyBatchNoEffect ==
    /\ [][(variant \in SkippingVariants /\ pc = "read" /\ rows' # rows
            /\ CohortRows(SubSeq(rows', Len(rows) + 1, Len(rows'))) = <<>>) =>
              /\ agg_storage' = agg_storage
              /\ full_agg' = full_agg
              /\ final_df' = final_df
              /\ outcome' = outcome]_vars
    /\ []((variant \in SkippingVariants /\ pc = "done" /\ CohortRows(rows) = <<>>) =>
              (final_df = <<>> /\ outcome # "saved"))

\* A run read its file row by row, skipped a batch whose record did not pass
\* the filter, and saved a table from the partial states of the other rows.
C29_Witness ==
    /\ variant \in SkippingVariants
    /\ Saved
    /\ chunk_size = 1
    /\ Len(CohortRows(rows)) < Len(rows)
    /\ Len(agg_storage) = Len(CohortRows(rows))

-----------------------------------------------------------------------------
(* C30: region keys across modules. *)

\* IBGE_TO_REGION of 02_process_pisa_2015_uf_region.py: REGIONAL_MAP turned
\* from region -> codes into code -> region.
IBGE_TO_REGION(code) ==
    CASE code \in {11, 12, 13, 14, 15, 16, 17} -> "N"
      [] code \in {21, 22, 23, 24, 25, 26, 27, 28, 29} -> "NE"
      [] code \in {31, 32, 33, 35} -> "SE"
      [] code \in {41, 42, 43} -> "S"
      [] code \in {50, 51, 52, 53} -> "CO"
      [] OTHER -> "NaN"

\* The IBGE codes of the 27 states, and the code of a sigla.
IbgeCodes == {c \in 11..53 : IBGE_TO_SIGLA(c) # NoUF}

CodeOfSigla(uf) == CHOOSE c \in IbgeCodes : IBGE_TO_SIGLA(c) = uf

\* The region tag of a state in each module that tags states: the ENEM
\* tables, the cross-source analysis, the PISA 2015 table and the unified
\* SAEB tables.
RegionTags(uf) ==
    {UF_REGION_MAP(uf), UF_TO_REGION(uf), IBGE_TO_REGION(CodeOfSigla(uf)),
     get_region(uf)}

\* Two states are in one region by every module, or in different regions by
\* every module.
SamePartition ==
    \A u, v \in Siglas :
        /\ (UF_REGION_MAP(u) = UF_REGION_MAP(v)) <=> (get_region(u) = get_region(v))
        /\ (UF_REGION_MAP(u) = UF_REGION_MAP(v)) <=> (UF_TO_REGION(u) = UF_TO_REGION(v))
        /\ (UF_REGION_MAP(u) = UF_REGION_MAP(v))
              <=> (IBGE_TO_REGION(CodeOfSigla(u)) = IBGE_TO_REGION(CodeOfSigla(v)))

\* C30: region keys agree. The modules split the 27 states into the same
\* five regions, and the region a SAEB table carries for a state is the
\* region every other module tags that state with, so that region-keyed
\* tables join on equal values.
C30_RegionKeysAgree ==
    /\ SamePartition
    /\ \A row \in Emitted :
          ("Region" \in DOMAIN row /\ row.UF \in Siglas) =>
              RegionTags(row.UF) = {row.Region}

-----------------------------------------------------------------------------
(* The specifications. *)

\* An ENEM script on a file; nothing else runs.
InitEnem == EnemInit /\ SaebIdle /\ GeoIdle /\ PisaIdle /\ WavesIdle /\ RunIdle
    /\ FinIdle /\ OrchIdle

SpecEnem == InitEnem /\ [][EnemNext]_vars

\* A SAEB script on a file; nothing else runs.
InitSaeb == EnemIdle /\ SaebInit /\ GeoIdle /\ PisaIdle /\ WavesIdle /\ RunIdle
    /\ FinIdle /\ OrchIdle

SpecSaeb == InitSaeb /\ [][SaebNext]_vars

\* A geocoder call; nothing else runs.
InitGeo == EnemIdle /\ SaebIdle /\ GeoInit /\ PisaIdle /\ WavesIdle /\ RunIdle
    /\ FinIdle /\ OrchIdle

SpecGeo == InitGeo /\ [][GeoNext]_vars

\* A regional PISA script on a file; nothing else runs.
InitPisa == EnemIdle /\ SaebIdle /\ GeoIdle /\ PisaInit /\ WavesIdle /\ RunIdle
    /\ FinIdle /\ OrchIdle

SpecPisa == InitPisa /\ [][PisaNext]_vars

\* A cross-source script on the tables of a wave; nothing else runs.
InitWaves == EnemIdle /\ SaebIdle /\ GeoIdle /\ PisaIdle /\ WavesInit /\ RunIdle
    /\ FinIdle /\ OrchIdle

SpecWaves == InitWaves /\ [][WavesNext]_vars

\* A run over several files.
InitRun == EnemIdle /\ SaebIdle /\ GeoIdle /\ PisaIdle /\ WavesIdle /\ RunInit
    /\ FinIdle /\ OrchIdle

SpecRun == InitRun /\ [][RunNext]_vars

\* The consolidation of one score column of one UF.
InitFin == EnemIdle /\ SaebIdle /\ GeoIdle /\ PisaIdle /\ WavesIdle /\ RunIdle
    /\ FinInit /\ OrchIdle

SpecFin == InitFin /\ [][FinNext]_vars

\* A run of the orchestrator.
InitOrch == EnemIdle /\ SaebIdle /\ GeoIdle /\ PisaIdle /\ WavesIdle /\ RunIdle
    /\ FinIdle /\ OrchInit

SpecOrch == InitOrch /\ [][OrchNext]_vars

====
